---------------------------- MODULE Spec2Model ----------------------------
(***************************************************************************)
(* Model of the Hellas launcher's install / update / reinstall engine:     *)
(* src/src/main/main.js (the IPC handlers and runUpdateTask) and           *)
(* src/src/main/update.js (resolveUpdateSource, downloadAndExtractUpdate,  *)
(* freshReinstall and the post-extraction normalisation).                  *)
(*                                                                         *)
(* The main process is one event loop.  An action of the model is one run  *)
(* of synchronous code together with the microtasks it queues: it starts   *)
(* where an IPC message or the completion of an awaited I/O call is        *)
(* delivered and ends at the next await on I/O.  File-system calls take     *)
(* effect in the order in which they are issued.                           *)
(***************************************************************************)
EXTENDS Integers, Sequences, FiniteSets, TLC

\* ------------------------------------------------------------------ bounds
MaxRequests == 2        \* handler invocations over one behaviour
MaxChunks == 1          \* 'data' events of one download stream
MaxChecks == 2          \* direct calls of checkLaunchRequirements
MaxLaunches == 2        \* hellas:launch-game invocations over one behaviour

\* --------------------------------------------------------------- strings
\* A string is a sequence of tokens; " " is the whitespace token.
Null == <<"null">>
Empty == <<>>

\* String.prototype.trim
RECURSIVE trimStart(_)
trimStart(s) == IF s # <<>> /\ Head(s) = " " THEN trimStart(Tail(s)) ELSE s

RECURSIVE trimEnd(_)
trimEnd(s) == IF s # <<>> /\ s[Len(s)] = " " THEN trimEnd(SubSeq(s, 1, Len(s) - 1)) ELSE s

trim(s) == trimEnd(trimStart(s))

\* String.prototype.toLowerCase, token by token
lowerToken(t) ==
    IF t = "HellasForms-" THEN "hellasforms-" ELSE IF t = ".JAR" THEN ".jar" ELSE
    CASE t = ".JSON" -> ".json"
      [] t = "AB" -> "ab"
      [] t = "CD" -> "cd"
      [] OTHER -> t

toLowerCase(s) == [i \in 1..Len(s) |-> lowerToken(s[i])]

endsWith(s, t) == s # <<>> /\ s[Len(s)] = t

\* JavaScript truthiness of a string-or-null value, and the || operator
Truthy(v) == v # Null /\ v # Empty
Or(a, b) == IF Truthy(a) THEN a ELSE b

\* ------------------------------------------------------------ file system
\* The install root is a function from the paths that exist (sequences of
\* names relative to the root; <<>> is the root itself) to Dir or to the
\* content of a file, which is named after where the file came from.
Content(origin, path) == [from |-> origin, at |-> path]
Dir == Content("dir", <<>>)

IsPrefix(p, q) == Len(p) <= Len(q) /\ SubSeq(q, 1, Len(p)) = p
Prefixes(p) == { SubSeq(p, 1, n) : n \in 0..Len(p) }
Parent(p) == SubSeq(p, 1, Len(p) - 1)

\* a path that begins with '..' names something outside the install root
InsideRoot(p) == p = <<>> \/ p[1] # ".."

\* path.normalize over the segments of a path: empty and '.' segments are dropped and a
\* '..' takes back the segment before it; with nothing before it, it is kept when the
\* path may climb and dropped otherwise
RECURSIVE resolveSegments(_, _, _)
resolveSegments(done, rest, climb) ==
    IF rest = <<>> THEN done
    ELSE IF Head(rest) \in {"", "."} THEN resolveSegments(done, Tail(rest), climb)
    ELSE IF Head(rest) # ".." THEN resolveSegments(Append(done, Head(rest)), Tail(rest), climb)
    ELSE IF done # <<>> /\ done[Len(done)] # ".."
    THEN resolveSegments(SubSeq(done, 1, Len(done) - 1), Tail(rest), climb)
    ELSE resolveSegments(IF climb THEN Append(done, "..") ELSE done, Tail(rest), climb)

exists(f, p) == p \in DOMAIN f
isDirectory(f, p) == p \in DOMAIN f /\ f[p] = Dir

\* fs.promises.rm(p, { recursive: true, force: true })
rm(f, p) == [q \in { x \in DOMAIN f : ~IsPrefix(p, x) \/ (InsideRoot(p) /\ ~InsideRoot(x)) } |-> f[q]]

\* fs.promises.mkdir(p, { recursive: true })
mkdir(f, p) == [q \in DOMAIN f \cup Prefixes(p) |-> IF q \in DOMAIN f THEN f[q] ELSE Dir]

\* fs.promises.readdir(d): the names directly under d, as paths
readdir(f, d) == { q \in DOMAIN f : Len(q) = Len(d) + 1 /\ IsPrefix(d, q) }

\* fs.promises.rename(from, to): the subtree at from replaces whatever is at to
rename(f, from, to) ==
    LET kept == rm(rm(f, to), from)
        moved == { q \in DOMAIN f : IsPrefix(from, q) }
        dest(q) == to \o SubSeq(q, Len(from) + 1, Len(q))
        src(n) == from \o SubSeq(n, Len(to) + 1, Len(n))
    IN  [n \in DOMAIN kept \cup { dest(q) : q \in moved } |->
            IF IsPrefix(to, n) THEN f[src(n)] ELSE kept[n]]

\* fs.promises.cp(from, to, { recursive: true }) / copyFile: as rename, the source kept
cp(f, from, to) ==
    LET moved == { q \in DOMAIN f : IsPrefix(from, q) }
        dest(q) == to \o SubSeq(q, Len(from) + 1, Len(q))
        src(n) == from \o SubSeq(n, Len(to) + 1, Len(n))
    IN  [n \in DOMAIN f \cup { dest(q) : q \in moved } |->
            IF IsPrefix(to, n) /\ src(n) \in moved THEN f[src(n)] ELSE f[n]]

\* writing one file, its parent directories created as needed
writeFile(f, p, c) ==
    LET g == mkdir(f, Parent(p))
    IN  [q \in DOMAIN g \cup {p} |-> IF q = p THEN c ELSE g[q]]

\* the files (not directories) of f, with their content
Files(f) == { q \in DOMAIN f : f[q] # Dir }

\* ------------------------------------------------------- program constants
DEFAULT_PACK_URL == <<"hellasregion.com/download/launcher/latest/compact">>
PROGRESS_PHASE_DOWNLOAD == 80
MODPACK_DIR_NAME == "modpack"
MODS_DIR_NAME == "mods"
RESOURCEPACKS_DIR_NAME == "resourcepacks"
SERVER_FILES == <<"servers.dat", "servers.dat_old">>
DescriptorMaxBytes == 512 * 1024

\* path.join(targetDir, ...) relative to the install root
modpackDir == <<MODPACK_DIR_NAME>>
modsDir == <<MODPACK_DIR_NAME, MODS_DIR_NAME>>
resourcepacksDir == <<MODPACK_DIR_NAME, RESOURCEPACKS_DIR_NAME>>
legacyModsDir == <<MODS_DIR_NAME>>
legacyResourcepacksDir == <<RESOURCEPACKS_DIR_NAME>>
targetDir == <<>>

\* ------------------------------------------------------------ environment
\* process.env as read by resolveUpdateSource; fixed once the process runs.
RealZipUrl == <<"x/real", ".zip">>

EnvDefault == [PACK_FEED_URL |-> Empty, PACK_ZIP_URL |-> <<" ">>,
               PACK_VERSION |-> Empty, PACK_EXPECTED_SHA256 |-> Empty]
EnvDirect == [PACK_FEED_URL |-> Empty, PACK_ZIP_URL |-> <<"cdn/pack", ".JSON", " ">>,
              PACK_VERSION |-> <<"2.0.0">>, PACK_EXPECTED_SHA256 |-> <<"AB">>]
EnvFeed == [PACK_FEED_URL |-> <<"cdn/feed", ".json">>, PACK_ZIP_URL |-> <<"cdn/pack", ".zip">>,
            PACK_VERSION |-> Empty, PACK_EXPECTED_SHA256 |-> Empty]
EnvVersioned == [PACK_FEED_URL |-> Empty, PACK_ZIP_URL |-> <<"cdn/pack", ".zip">>,
                 PACK_VERSION |-> <<"2.0.0">>, PACK_EXPECTED_SHA256 |-> Empty]

\* the values the four variables can hold: unset or empty, blank, or set (a set URL
\* may carry surrounding whitespace)
Envs ==
    [ PACK_FEED_URL : {Empty, <<" ">>, <<"cdn/feed", ".json">>},
      PACK_ZIP_URL : {Empty, <<" ">>, <<" ", "cdn/pack", ".zip", " ">>},
      PACK_VERSION : {Empty, <<"2.0.0">>},
      PACK_EXPECTED_SHA256 : {Empty, <<"AB">>} ]

\* ---------------------------------------------------------------- archives
\* An archive is the sequence of its entries.
Entry(name, isDir) == [entryName |-> name, isDirectory |-> isDir]

ArchiveCanonical ==
    << Entry(<<"modpack">>, TRUE), Entry(<<"modpack", "mods">>, TRUE),
       Entry(<<"modpack", "mods", "a.jar">>, FALSE),
       Entry(<<"modpack", "resourcepacks", "r.zip">>, FALSE) >>
ArchiveLegacy ==
    << Entry(<<"mods", "foo.jar">>, FALSE), Entry(<<"resourcepacks", "r.zip">>, FALSE),
       Entry(<<"servers.dat">>, FALSE), Entry(<<"servers.dat_old">>, FALSE) >>
ArchiveMixed ==
    << Entry(<<"modpack", "mods", "oldmod.jar">>, FALSE), Entry(<<"mods", "b.jar">>, FALSE),
       Entry(<<"config", "c.cfg">>, FALSE) >>

\* entry names with '..' segments that lead out of the directory they are joined to
ArchiveEscaping ==
    << Entry(<<"modpack", "mods", "a.jar">>, FALSE), Entry(<<"..", "outside">>, TRUE),
       Entry(<<"..", "outside", "evil.jar">>, FALSE) >>
\* absolute entry names (a leading empty segment) and '..' segments that stay inside
ArchiveRooted ==
    << Entry(<<"", "abs">>, TRUE), Entry(<<"", "abs", "x.cfg">>, FALSE),
       Entry(<<"modpack", "..", "config">>, TRUE), Entry(<<"modpack", "mods", ".", "a.jar">>, FALSE) >>

ArchiveNames == {"canonical", "legacy", "mixed"}
Archive(n) ==
    CASE n = "canonical" -> ArchiveCanonical
      [] n = "legacy" -> ArchiveLegacy
      [] n = "mixed" -> ArchiveMixed
      [] n = "escaping" -> ArchiveEscaping
      [] n = "rooted" -> ArchiveRooted
      [] OTHER -> <<>>

\* ----------------------------------------------------- initial install roots
FsAbsent == [q \in {} |-> Dir]

PriorDirs == { <<>>, <<"modpack">>, <<"modpack", "mods">>, <<"modpack", "resourcepacks">>,
               <<"mods">>, <<"versions">>, <<"forge">> }
PriorFiles == { <<"modpack", "mods", "oldmod.jar">>, <<"modpack", "resourcepacks", "oldrp.zip">>,
                <<"modpack", "servers.dat">>, <<"modpack", "options.txt">>, <<"mods", "oldmod.jar">>, <<"servers.dat">>,
                <<"versions", "1.16.5.json">>, <<"forge", "installer.jar">> }
FsPrior == [q \in PriorDirs \cup PriorFiles |-> IF q \in PriorDirs THEN Dir ELSE Content("prior", q)]

\* ------------------------------------------------------------------ state
VARIABLES
    env,                    \* process.env
    store,                  \* electron-store: installedVersion, lastKnownVersion
    updateInProgress,       \* main.js:17
    updateAbortController,  \* main.js:16; 0 is null, r the controller made for request r
    fs,                     \* the install root
    tmp,                    \* requests whose temporary archive file exists in os.tmpdir()
    remote,                 \* what the remote host may answer and serve
    quota,                  \* handler invocations the renderer makes in all
    nreq,                   \* handler invocations so far
    req,                    \* per invocation: position, locals, events sent
    cachedForgeVersion,     \* launcher.js:69
    denied,                 \* paths of the install root that deny access
    query,                  \* the state query in flight, if any, and its reply
    checks,                 \* direct calls of checkLaunchRequirements and what they returned
    account,                \* electron-store: the 'account' record
    sessionAccount,         \* main.js:15
    auth,                   \* start-up position and the last account operation
    launchInProgress,       \* main.js:18
    activeLaunch,           \* launcher.js:70; 0 is null, l the promise of launch l
    games,                  \* launches whose game process is running
    launches                \* per hellas:launch-game invocation: position, locals

vars == <<env, remote, quota, store, updateInProgress, updateAbortController, fs, tmp, nreq, req,
          cachedForgeVersion, denied, query, checks,
          account, sessionAccount, auth, launchInProgress, activeLaunch, games, launches>>

\* what the update handlers and the steps of their tasks leave alone
detection == <<cachedForgeVersion, denied, query, checks>>

\* what only the account handlers and the launch handlers touch
launching == <<account, sessionAccount, auth, launchInProgress, activeLaunch, games, launches>>

NoRequirements == [minecraft |-> FALSE, forge |-> FALSE, modpack |-> FALSE]

\* no installation state returned yet
NoInstallation ==
    [ installDirExists |-> FALSE, isInstalled |-> FALSE, installedVersion |-> Empty,
      lastKnownVersion |-> Empty, requirements |-> NoRequirements,
      forgeVersion |-> Null, minecraftVersion |-> Null ]

NoQuery == [pc |-> "idle", kind |-> "none", installDirExists |-> FALSE, installation |-> NoInstallation]

Requests == 1..MaxRequests
Kinds == {"install", "update", "reinstall"}

NoResponse == [ok |-> FALSE, contentType |-> "", contentLength |-> 0, body |-> "none"]
NoResolved == [type |-> "none", url |-> Null, version |-> Null, sha256 |-> Null]

Idle ==
    [ kind |-> "none", pc |-> "idle", outcome |-> "none", message |-> "",
      aborted |-> FALSE,        \* signal.aborted of the controller made for this request
      resolved |-> NoResolved, tempZipPath |-> FALSE, response |-> NoResponse,
      contentType |-> "",       \* the first response's content-type (update.js:167)
      gets |-> <<>>,            \* the URLs fetched, in order
      answers |-> <<>>,         \* the responses received, in order
      downloaded |-> 0, chunks |-> 0,
      digest |-> Null,          \* hasher.digest('hex'), once computed
      archive |-> "none",       \* the archive AdmZip found in the temporary file
      pending |-> "none",       \* how downloadAndExtractUpdate is about to settle
      events |-> <<>>,          \* update-progress payloads sent for this request
      cancelAt |-> "none",      \* where the task stood when cancel-update aborted it
      fileStream |-> "none",    \* "open" once fs.createWriteStream(tempZipPath) was called;
                                \* "destroyed" when it was destroyed in that same call
      fs0 |-> FsAbsent,         \* install root when the handler began, then when it
                                \* called runUpdateTask
      fsBegin |-> FsAbsent,     \* install root when downloadAndExtractUpdate began
      installed0 |-> Empty,     \* installedVersion at the same moments
      installDirExists |-> FALSE, \* existsSync(dir) as the handler's getInstallationState took it
      installation |-> NoInstallation ] \* what that getInstallationState returned

Event(st, pr) == [state |-> st, progress |-> pr]
EventStates(evs) == { evs[i].state : i \in 1..Len(evs) }

\* ------------------------------------------------ update.js: source resolution
\* a resolution that prefers PACK_ZIP_URL to PACK_FEED_URL
resolveUpdateSource_ZipFirst ==
    IF Truthy(trim(env.PACK_ZIP_URL))
    THEN [type |-> "direct", feedUrl |-> Null, url |-> trim(env.PACK_ZIP_URL),
          version |-> Or(env.PACK_VERSION, Null), sha256 |-> Or(env.PACK_EXPECTED_SHA256, Null)]
    ELSE IF Truthy(trim(env.PACK_FEED_URL))
    THEN [type |-> "feed", feedUrl |-> trim(env.PACK_FEED_URL), url |-> Null, version |-> Null, sha256 |-> Null]
    ELSE [type |-> "direct", feedUrl |-> Null, url |-> DEFAULT_PACK_URL,
          version |-> Or(env.PACK_VERSION, Null), sha256 |-> Or(env.PACK_EXPECTED_SHA256, Null)]

\* resolveUpdateSource (update.js:15-40); a missing object property is Null
resolveUpdateSource ==
    LET feedUrl == trim(env.PACK_FEED_URL)
        directUrl == trim(env.PACK_ZIP_URL)
        resolvedDirectUrl == Or(directUrl, DEFAULT_PACK_URL)
    IN  IF Truthy(feedUrl)
        THEN [type |-> "feed", feedUrl |-> feedUrl, url |-> Null, version |-> Null, sha256 |-> Null]
        ELSE IF Truthy(resolvedDirectUrl)
        THEN [type |-> "direct", feedUrl |-> Null, url |-> resolvedDirectUrl,
              version |-> Or(env.PACK_VERSION, Null), sha256 |-> Or(env.PACK_EXPECTED_SHA256, Null)]
        ELSE [type |-> "null", feedUrl |-> Null, url |-> Null, version |-> Null, sha256 |-> Null]

\* a guard that tests only `!updateSource`
SourceNotConfigured_ObjectOnly(updateSource) == updateSource.type = "null"

\* the handlers' guard `!updateSource || !updateSource.url` (main.js:342, 459, 494)
SourceNotConfigured(updateSource) == updateSource.type = "null" \/ ~Truthy(updateSource.url)

\* freshReinstall's own guard (update.js:310)
freshReinstallNoSource(updateSource) == updateSource.type = "null" \/ ~Truthy(updateSource.url)

\* ------------------------------------------------ main.js: the single-flight token
\* a runUpdateTask without the guard
runUpdateTaskBusy_Never == FALSE

\* runUpdateTask's guard (main.js:173)
runUpdateTaskBusy == updateInProgress

\* the token had the guard been inside the try, its throw followed by the finally
runUpdateTaskRejected_Cleared == [controller |-> 0, inProgress |-> FALSE]

\* the token after a rejected call: the throw at main.js:174 is outside the try,
\* so the finally at 188-193 does not run
runUpdateTaskRejected == [controller |-> updateAbortController, inProgress |-> updateInProgress]

\* a finally that forgets the flag
runUpdateTaskFinally_KeepsFlag == [controller |-> 0, inProgress |-> updateInProgress]

\* the token after the finally block (main.js:188-193)
runUpdateTaskFinally == [controller |-> 0, inProgress |-> FALSE]

\* runUpdateTask's catch (main.js:183-187): a cancellation becomes {cancelled: true}
runUpdateTaskCatch(pending) == IF pending = "cancelled" THEN "cancelled" ELSE "failed"

\* ----------------------------------------------------------------- network
\* What a GET can answer.  body: "zip" (an archive or other binary), "descriptor"
\* ({"modpack": {"url": RealZipUrl, "version": "3.1.0"}}), "descriptor-nourl"
\* (JSON without a url) or "garbage" (not JSON, not a zip).
Response(ok, ct, len, body) == [ok |-> ok, contentType |-> ct, contentLength |-> len, body |-> body]

FirstResponses ==
    { Response(FALSE, "text/html", 0, "garbage"),
      Response(TRUE, "application/zip", 1048576, "zip"),
      Response(TRUE, "application/zip", 0, "zip"),
      Response(TRUE, "application/octet-stream", 2, "zip"),
      Response(TRUE, "application/json", 2, "descriptor"),
      Response(TRUE, "application/octet-stream", 2, "descriptor"),
      Response(TRUE, "application/json", 2, "descriptor-nourl"),
      Response(TRUE, "application/json; charset=utf-8", 2, "garbage") }

PlainResponses ==
    { Response(FALSE, "text/html", 0, "garbage"),
      Response(TRUE, "application/zip", 1048576, "zip"),
      Response(TRUE, "application/json", 2, "descriptor") }

SecondResponses ==
    { Response(FALSE, "text/html", 0, "garbage"),
      Response(TRUE, "application/zip", 2, "zip") }

ChunkSizes == {3}
Digests == { <<"ab">>, <<"cd">> }

\* contentType.includes('application/json')
includesJson(ct) == ct \in {"application/json", "application/json; charset=utf-8"}

\* response.clone().json() followed by `manifest.modpack || manifest` (update.js:177-178)
parsesAsJson(body) == body \in {"descriptor", "descriptor-nourl"}
descriptorPack(body) ==
    IF body = "descriptor"
    THEN [url |-> RealZipUrl, version |-> <<"3.1.0">>, sha256 |-> Null, hash |-> Null]
    ELSE [url |-> Null, version |-> Null, sha256 |-> Null, hash |-> Null]

\* update.js:170-173
shouldAttemptDescriptor(resolved, response) ==
    \/ includesJson(response.contentType)
    \/ endsWith(toLowerCase(resolved.url), ".json")
    \/ (response.contentLength > 0 /\ response.contentLength <= DescriptorMaxBytes)

\* a progress without the cap
downloadProgress_Uncapped(downloaded, totalBytes) ==
    (2 * downloaded * PROGRESS_PHASE_DOWNLOAD + totalBytes) \div (2 * totalBytes)

\* Math.min(99, Math.round((downloaded / totalBytes) * PROGRESS_PHASE_DOWNLOAD)) (update.js:229)
downloadProgress(downloaded, totalBytes) ==
    LET rounded == (2 * downloaded * PROGRESS_PHASE_DOWNLOAD + totalBytes) \div (2 * totalBytes)
    IN  IF rounded < 99 THEN rounded ELSE 99

ChecksumError == "Downloaded archive checksum does not match expected SHA-256."
BusyError == "Another download is already in progress."
NotConfiguredError == "Update source is not configured."

\* a comparison that never reports a difference
checksumMismatch_Never(digest, sha256) == FALSE

\* digest.toLowerCase() !== resolved.sha256.toLowerCase() (update.js:247)
checksumMismatch(digest, sha256) == toLowerCase(digest) # toLowerCase(sha256)

\* ------------------------------------------------ update.js: cancellation, catch
\* ensureNotCancelled (update.js:72-76): TRUE when it throws
ensureNotCancelled(signalAborted) == signalAborted

\* the catch block of downloadAndExtractUpdate (update.js:292-298), then the
\* finally block up to its await (update.js:299-302)
catchBlock(rec, error, msg) ==
    [rec EXCEPT !.events = Append(@, Event(IF error = "cancelled" THEN "cancelled" ELSE "error", -1)),
                !.pending = error, !.message = msg,
                !.pc = IF rec.tempZipPath THEN "unlink" ELSE "settle"]

\* a persistence that writes whatever version the task resolved, none included
persistVersion_Always(version) == [installedVersion |-> version, lastKnownVersion |-> version]

\* the handlers' persistence of a finished task's version (main.js:361-364, 477-480, 510-513)
persistVersion(version) ==
    IF Truthy(version)
    THEN [installedVersion |-> version, lastKnownVersion |-> version]
    ELSE store

\* a handler that reports a finished task as still downloading
handlerEvent_StillDownloading(result) ==
    CASE result = "ok" -> Event("downloading", 99)
      [] result = "cancelled" -> Event("cancelled", -1)
      [] OTHER -> Event("error", -1)

\* the events a handler sends once runUpdateTask has settled (main.js:356-366, 369-372)
handlerEvent(result) ==
    CASE result = "ok" -> Event("complete", 100)
      [] result = "cancelled" -> Event("cancelled", -1)
      [] OTHER -> Event("error", -1)

\* a settling that releases the token and leaves the handler's continuation for later
Settle_ReleasesFirst(r, rec) ==
    /\ updateAbortController' = runUpdateTaskFinally.controller
    /\ updateInProgress' = runUpdateTaskFinally.inProgress
    /\ store' = store
    /\ req' = [req EXCEPT ![r] = [rec EXCEPT !.pc = "unlink"]]

\* runUpdateTask's catch and finally, then the handler's continuation up to its
\* next await or its return (main.js:183-193 and 356-373)
Settle(r, rec) ==
    LET result == IF rec.pending = "ok" THEN "ok" ELSE runUpdateTaskCatch(rec.pending)
        token == runUpdateTaskFinally
    IN  /\ updateAbortController' = token.controller
        /\ updateInProgress' = token.inProgress
        /\ store' = IF result = "ok" THEN persistVersion(Or(rec.resolved.version, Null)) ELSE store
        /\ req' = [req EXCEPT ![r] =
                     [rec EXCEPT !.events = Append(@, handlerEvent(result)),
                                 !.installDirExists = (result = "ok" /\ exists(fs', targetDir)),
                                 !.pc = "settled",
                                 !.outcome = IF result = "ok" THEN "completed" ELSE result]]

\* a step of the task whose record rec has reached the catch block ("settle": the task
\* settles in this step) or any other position (the task awaits again)
Continue(r, rec) ==
    IF rec.pc = "settle"
    THEN Settle(r, rec)
    ELSE /\ req' = [req EXCEPT ![r] = rec]
         /\ UNCHANGED <<store, updateInProgress, updateAbortController>>

\* downloadAndExtractUpdate from its entry to its first await (update.js:144-162);
\* root is the install root at that moment
downloadAndExtractUpdateBegin(rec, root) ==
    LET source == resolveUpdateSource
        entered == [rec EXCEPT !.resolved = [type |-> source.type, url |-> source.url,
                                             version |-> source.version, sha256 |-> source.sha256],
                               !.fsBegin = root]
    IN  IF ensureNotCancelled(rec.aborted)
        THEN catchBlock(entered, "cancelled", "Update cancelled by user.")
        ELSE IF source.type = "feed"
        THEN [entered EXCEPT !.events = Append(@, Event("fetching-feed", -1)),
                             !.pc = "fetchFeedManifest"]
        ELSE IF ~Truthy(entered.resolved.url)
        THEN catchBlock(entered, "error", "No update URL could be resolved.")
        ELSE [entered EXCEPT !.tempZipPath = TRUE, !.gets = <<entered.resolved.url>>, !.pc = "fetch"]

\* freshReinstall up to its await (update.js:308-314)
freshReinstallBegin(rec) ==
    IF freshReinstallNoSource(resolveUpdateSource)
    THEN [rec EXCEPT !.pending = "error", !.message = NotConfiguredError, !.pc = "settle"]
    ELSE [rec EXCEPT !.pc = "rmInstallDir"]

\* runUpdateTask up to its await (main.js:172-181), called by the handler right after
\* sendUpdateProgress({state: 'downloading', progress: 0}); a rejected call lands in the
\* handler's catch (main.js:369-373, 485-489, 518-522)
runUpdateTask(r, rec) ==
    LET announced == [rec EXCEPT !.events = Append(@, Event("downloading", 0)),
                                 !.fs0 = fs', !.installed0 = store.installedVersion]
    IN  IF runUpdateTaskBusy
        THEN /\ req' = [req EXCEPT ![r] =
                          [announced EXCEPT !.events = Append(@, Event("error", -1)),
                                            !.pc = "settled", !.outcome = "busy",
                                            !.message = BusyError]]
             /\ updateAbortController' = runUpdateTaskRejected.controller
             /\ updateInProgress' = runUpdateTaskRejected.inProgress
             /\ UNCHANGED store
        ELSE LET started == IF rec.kind = "reinstall"
                            THEN freshReinstallBegin(announced)
                            ELSE downloadAndExtractUpdateBegin(announced, fs')
             IN  IF started.pc = "settle"
                 THEN Settle(r, started)
                 ELSE /\ updateAbortController' = r
                      /\ updateInProgress' = TRUE
                      /\ req' = [req EXCEPT ![r] = started]
                      /\ UNCHANGED store

\* ------------------------------------------------ update.js: download
\* the download promise up to the point where it waits for stream events
\* (update.js:201-221, 256): the write stream is created, an aborted signal rejects at once
startDownload(rec) ==
    LET created == [rec EXCEPT !.downloaded = 0, !.chunks = 0]
    IN  IF rec.aborted
        THEN catchBlock([created EXCEPT !.fileStream = "destroyed"], "cancelled", "Update cancelled by user.")
        ELSE [created EXCEPT !.fileStream = "open", !.pc = "downloading"]

\* a probe that goes on with the response at hand whatever the content-type
descriptorCatch_AlwaysFallsBack(rec, error, msg) == startDownload(rec)

\* the inner catch of the descriptor probe (update.js:194-198): rethrow when the
\* content-type was JSON, else go on with the response at hand
descriptorCatch(rec, error, msg) ==
    IF includesJson(rec.contentType)
    THEN catchBlock(rec, error, msg)
    ELSE startDownload(rec)

\* the first response has arrived (update.js:159-175)
afterFetch(rec, response) ==
    LET got == [rec EXCEPT !.response = response, !.contentType = response.contentType,
                           !.answers = Append(@, response)]
    IN  IF ~response.ok
        THEN catchBlock(got, "error", "Failed to download update archive")
        ELSE IF shouldAttemptDescriptor(rec.resolved, response)
        THEN [got EXCEPT !.pc = "descriptorJson"]
        ELSE startDownload(got)

\* a probe that takes the descriptor's version and checksum but fetches the source URL again
afterDescriptorJson_SameUrl(rec) ==
    LET pack == descriptorPack(rec.response.body)
    IN  IF ~parsesAsJson(rec.response.body)
        THEN descriptorCatch(rec, "error", "invalid json response body")
        ELSE IF ~Truthy(pack.url)
        THEN descriptorCatch(rec, "error", "Update descriptor missing the modpack URL.")
        ELSE [rec EXCEPT !.gets = Append(@, rec.resolved.url),
                         !.resolved.version = Or(pack.version, Or(rec.resolved.version, Null)),
                         !.resolved.sha256 = Or(pack.sha256, Or(pack.hash, Or(rec.resolved.sha256, Null))),
                         !.pc = "fetchDescriptor"]

\* the probed body has been read (update.js:177-190)
afterDescriptorJson(rec) ==
    LET pack == descriptorPack(rec.response.body)
    IN  IF ~parsesAsJson(rec.response.body)
        THEN descriptorCatch(rec, "error", "invalid json response body")
        ELSE IF ~Truthy(pack.url)
        THEN descriptorCatch(rec, "error", "Update descriptor missing the modpack URL.")
        ELSE [rec EXCEPT !.gets = Append(@, pack.url),
                         !.resolved.url = pack.url,
                         !.resolved.version = Or(pack.version, Or(rec.resolved.version, Null)),
                         !.resolved.sha256 = Or(pack.sha256, Or(pack.hash, Or(rec.resolved.sha256, Null))),
                         !.pc = "fetchDescriptor"]

\* the re-issued GET has answered (update.js:190-193); `response` is reassigned
\* before its status is tested
afterFetchDescriptor(rec, response) ==
    LET got == [rec EXCEPT !.response = response, !.answers = Append(@, response)]
    IN  IF ~response.ok
        THEN descriptorCatch(got, "error", "Failed to download update archive")
        ELSE startDownload(got)

\* a 'data' event (update.js:223-232)
onData(rec, n) ==
    LET totalBytes == rec.response.contentLength
        downloaded == rec.downloaded + n
    IN  [rec EXCEPT !.downloaded = downloaded, !.chunks = @ + 1,
                    !.events = IF totalBytes # 0
                               THEN Append(@, Event("downloading", downloadProgress(downloaded, totalBytes)))
                               ELSE @]

\* a finish that goes on to the extraction whatever the digest
onFinish_Unverified(rec, digest) ==
    LET hashed == IF Truthy(rec.resolved.sha256) THEN [rec EXCEPT !.digest = digest] ELSE rec
        done == [hashed EXCEPT !.events = Append(@, Event("downloading", PROGRESS_PHASE_DOWNLOAD))]
    IN  IF ensureNotCancelled(rec.aborted)
        THEN catchBlock(done, "cancelled", "Update cancelled by user.")
        ELSE [done EXCEPT !.pc = "prepare"]

\* the write stream's 'finish' event, then update.js:259-260
onFinish(rec, digest) ==
    LET hashed == IF Truthy(rec.resolved.sha256) THEN [rec EXCEPT !.digest = digest] ELSE rec
    IN  IF Truthy(rec.resolved.sha256) /\ checksumMismatch(digest, rec.resolved.sha256)
        THEN catchBlock(hashed, "error", ChecksumError)
        ELSE LET done == [hashed EXCEPT !.events = Append(@, Event("downloading", PROGRESS_PHASE_DOWNLOAD))]
             IN  IF ensureNotCancelled(rec.aborted)
                 THEN catchBlock(done, "cancelled", "Update cancelled by user.")
                 ELSE [done EXCEPT !.pc = "prepare"]

\* ------------------------------------------------ update.js: extraction
\* ensureModpackStructure (update.js:78-88)
ensureModpackStructure(f) == mkdir(mkdir(mkdir(f, modpackDir), modsDir), resourcepacksDir)

\* path.join(targetDir, entry.entryName) (update.js:276), relative to the install root
entryPath(entryName) == resolveSegments(<<>>, entryName, TRUE)

\* the path under targetDir that extractAllTo gives an entry: adm-zip normalises the
\* name against a root of its own, so that no '..' is left in it
extractTarget(entryName) == resolveSegments(<<>>, entryName, FALSE)

\* the mkdirSync pass over the directory entries (update.js:275-280)
RECURSIVE mkdirEntries(_, _)
mkdirEntries(f, entries) ==
    IF entries = <<>> THEN f
    ELSE mkdirEntries(IF Head(entries).isDirectory THEN mkdir(f, entryPath(Head(entries).entryName)) ELSE f,
                      Tail(entries))

\* zip.extractAllTo(targetDir, true) over the first n entries (update.js:282)
RECURSIVE extractEntries(_, _, _)
extractEntries(f, entries, n) ==
    IF n = 0 \/ entries = <<>> THEN f
    ELSE extractEntries(IF Head(entries).isDirectory
                        THEN mkdir(f, extractTarget(Head(entries).entryName))
                        ELSE writeFile(f, extractTarget(Head(entries).entryName),
                                       Content("archive", Head(entries).entryName)),
                        Tail(entries), n - 1)

\* an EXDEV fallback that copies and leaves the source
moveEntry_CopyOnly(f, from, to, exdev) == IF exdev THEN cp(f, from, to) ELSE rename(f, from, to)

\* one entry of the move loop (update.js:103-112): rename, or copy and delete on EXDEV
moveEntry(f, from, to, exdev) == IF exdev THEN rm(cp(f, from, to), from) ELSE rename(f, from, to)

RECURSIVE moveEntries(_, _, _, _, _)
moveEntries(f, entries, sourceDir, destinationDir, exdev) ==
    IF entries = {} THEN f
    ELSE LET from == CHOOSE e \in entries : TRUE
             to == destinationDir \o SubSeq(from, Len(sourceDir) + 1, Len(from))
         IN  moveEntries(moveEntry(f, from, to, exdev), entries \ {from}, sourceDir, destinationDir, exdev)

\* moveDirectoryContents (update.js:90-117)
moveDirectoryContents(f, sourceDir, destinationDir, exdev) ==
    IF ~isDirectory(f, sourceDir) THEN f
    ELSE LET cleared == mkdir(rm(f, destinationDir), destinationDir)
         IN  rm(moveEntries(cleared, readdir(cleared, sourceDir), sourceDir, destinationDir, exdev), sourceDir)

\* moveDirectoryContents when its first rename fails with an error other than EXDEV
moveDirectoryContentsFailed(f, sourceDir, destinationDir) == mkdir(rm(f, destinationDir), destinationDir)

\* moveFileIfExists (update.js:119-141)
moveFileIfExists(f, sourcePath, destinationPath, exdev) ==
    IF ~exists(f, sourcePath) THEN f
    ELSE moveEntry(mkdir(f, Parent(destinationPath)), sourcePath, destinationPath, exdev)

\* the post-extraction normalisation (update.js:284-289)
normalize(f, exdev) ==
    LET f1 == ensureModpackStructure(f)
        f2 == moveDirectoryContents(f1, legacyModsDir, modsDir, exdev)
        f3 == moveDirectoryContents(f2, legacyResourcepacksDir, resourcepacksDir, exdev)
        f4 == moveFileIfExists(f3, <<SERVER_FILES[1]>>, modpackDir \o <<SERVER_FILES[1]>>, exdev)
    IN  moveFileIfExists(f4, <<SERVER_FILES[2]>>, modpackDir \o <<SERVER_FILES[2]>>, exdev)

\* a deletion that leaves modpack/mods in place, and one that takes the whole of modpack/
purge_KeepsMods(f) == rm(rm(f, resourcepacksDir), legacyModsDir)
purge_WholeModpack(f) == rm(rm(f, modpackDir), legacyModsDir)

\* the pre-extraction deletion: the first three rm calls (update.js:266-268) and the
\* last (update.js:269), whose return is followed by the unpacking
purge(f) == rm(rm(rm(f, modsDir), resourcepacksDir), legacyModsDir)
purgeLast(f) == rm(f, legacyResourcepacksDir)

\* the finally block's unlink (update.js:299-303): the temporary files that can be left
\* once the task of request r has run it.  createWriteStream opens its file in a later
\* turn of the event loop; a stream destroyed in the call that created it
\* (update.js:206-218) has its file opened with nothing ordering that against the
\* unlink, which then either removes the file or finds none and is followed by it.
unlinkTemp(r) ==
    IF req[r].fileStream = "destroyed" THEN { tmp \ {r}, tmp \cup {r} } ELSE { tmp \ {r} }

\* ------------------------------------------------ launcher.js: detection
DEFAULT_MC_VERSION == <<"1.16.5">>

\* the last 1.16.5 build that the Forge metadata lists
LatestForge == <<"1.16.5-36.2.39">>

\* what the GET of FORGE_METADATA_URL can come to (launcher.js:202-212)
ForgeLookups == {"ok", "unreachable"}

\* `${version}.json` and `forge-${forgeVersion}-installer.jar` as file names
jsonName(version) == IF version = DEFAULT_MC_VERSION THEN "1.16.5.json" ELSE "1.16.5-36.2.39.json"
installerName(forgeVersion) == "forge-1.16.5-36.2.39-installer.jar"

\* a file name as the pieces the jar pattern looks at
nameTokens(name) ==
    CASE name = "hellasforms-1.0.0.jar" -> <<"hellasforms-", "1.0.0", ".jar">>
      [] name = "hellasforms-2.0.0.jar" -> <<"hellasforms-", "2.0.0", ".jar">>
      [] name = "HellasForms-3.0.0.JAR" -> <<"HellasForms-", "3.0.0", ".JAR">>
      [] name = "hellasforms-1.0.0.jar.bak" -> <<"hellasforms-", "1.0.0", ".jar", ".bak">>
      [] OTHER -> <<name>>

\* entry.name.match(/^hellasforms-([\w.-]+)\.jar$/i): the captured version, or Null
matchModpackJar(name) ==
    LET t == nameTokens(name)
    IN  IF Len(t) = 3 /\ lowerToken(t[1]) = "hellasforms-" /\ lowerToken(t[3]) = ".jar"
        THEN <<t[2]>>
        ELSE Null

\* `hellasforms-${expectedModpackVersion}.jar` (launcher.js:453)
expectedJar(expectedModpackVersion) ==
    IF Truthy(expectedModpackVersion)
    THEN <<"hellasforms-", expectedModpackVersion[1], ".jar">>
    ELSE Null

\* a path is out of reach when it or a directory above it denies access
Inaccessible(den, p) == \E q \in den : IsPrefix(q, p)

\* fs.promises.access(p) resolves
access(f, den, p) == exists(f, p) /\ ~Inaccessible(den, p)

\* the error code of fs.promises.readdir(d), "ok" when it resolves
readdirCode(f, den, d) ==
    IF Inaccessible(den, d) THEN "EACCES"
    ELSE IF ~exists(f, d) THEN "ENOENT"
    ELSE IF ~isDirectory(f, d) THEN "ENOTDIR"
    ELSE "ok"

ErrorMessage(code) ==
    CASE code = "EACCES" -> "EACCES: permission denied, scandir"
      [] code = "ENOENT" -> "ENOENT: no such file or directory, scandir"
      [] OTHER -> "ENOTDIR: not a directory, scandir"

\* the diagnostic pushed to modpackErrors (launcher.js:349, 375, 387)
readdirError(d, code) == [path |-> d, message |-> ErrorMessage(code), code |-> code]

\* the entries of a directory in the order readdir lists them: some fixed order
RECURSIVE listing(_)
listing(S) ==
    IF S = {} THEN <<>>
    ELSE LET x == CHOOSE y \in S : TRUE IN <<x>> \o listing(S \ {x})

\* getForgeInstallerPath (launcher.js:158-162)
getForgeInstallerPath(forgeVersion) ==
    IF ~Truthy(forgeVersion) THEN Null
    ELSE <<"forge", forgeVersion[1], installerName(forgeVersion)>>

\* uniquePaths (launcher.js:367-369): first occurrences, in order
RECURSIVE uniquePaths(_)
uniquePaths(paths) ==
    IF paths = <<>> THEN <<>>
    ELSE LET front == uniquePaths(SubSeq(paths, 1, Len(paths) - 1))
             last == paths[Len(paths)]
         IN  IF \E i \in 1..Len(front) : front[i] = last THEN front ELSE Append(front, last)

\* a read that finds every directory empty
readDirSafe_Empty(f, den, targetPath) == [entries |-> <<>>, errors |-> <<>>]

\* readDirSafe (launcher.js:371-380)
readDirSafe(f, den, targetPath) ==
    LET code == readdirCode(f, den, targetPath)
    IN  IF code = "ok"
        THEN [entries |-> listing(readdir(f, targetPath)), errors |-> <<>>]
        ELSE [entries |-> <<>>, errors |-> <<readdirError(targetPath, code)>>]

\* findNestedModDirectories (launcher.js:382-406)
findNestedModDirectories(f, den) ==
    LET installEntries == readDirSafe(f, den, targetDir)
        hasModsDirectory(entry) ==
            /\ isDirectory(f, entry)
            /\ isDirectory(f, entry \o <<"mods">>)
            /\ ~Inaccessible(den, entry \o <<"mods">>)
        found == SelectSeq(installEntries.entries, hasModsDirectory)
    IN  [modDirectories |-> [i \in 1..Len(found) |-> found[i] \o <<"mods">>],
         errors |-> installEntries.errors]

\* what detectModpackVersion meets, directory by directory: a failed read or the
\* entries of the directory (launcher.js:345-352)
RECURSIVE scanned(_, _, _)
scanned(f, den, modsPaths) ==
    IF modsPaths = <<>> THEN <<>>
    ELSE LET read == readDirSafe(f, den, modsPaths[1])
             met == IF read.errors # <<>>
                    THEN << [failed |-> TRUE, error |-> read.errors[1], name |-> "", isFile |-> FALSE] >>
                    ELSE [i \in 1..Len(read.entries) |->
                            [failed |-> FALSE, error |-> readdirError(modsPaths[1], "ok"),
                             name |-> read.entries[i][Len(read.entries[i])],
                             isFile |-> ~isDirectory(f, read.entries[i])]]
         IN  met \o scanned(f, den, Tail(modsPaths))

\* the loops of detectModpackVersion from the i-th thing met on (launcher.js:345-364)
RECURSIVE detectLoop(_, _, _, _, _)
detectLoop(met, i, expectedModpackJar, detectedVersion, errors) ==
    IF i > Len(met)
    THEN [modpackJarPresent |-> Truthy(detectedVersion), detectedVersion |-> detectedVersion,
          errors |-> errors]
    ELSE IF met[i].failed
    THEN detectLoop(met, i + 1, expectedModpackJar, detectedVersion, Append(errors, met[i].error))
    ELSE IF ~met[i].isFile \/ matchModpackJar(met[i].name) = Null
    THEN detectLoop(met, i + 1, expectedModpackJar, detectedVersion, errors)
    ELSE IF expectedModpackJar # Null /\ nameTokens(met[i].name) = expectedModpackJar
    THEN [modpackJarPresent |-> TRUE, detectedVersion |-> matchModpackJar(met[i].name), errors |-> errors]
    ELSE detectLoop(met, i + 1, expectedModpackJar, matchModpackJar(met[i].name), errors)

\* detectModpackVersion (launcher.js:342-365)
detectModpackVersion(f, den, modsPaths, expectedModpackJar) ==
    detectLoop(scanned(f, den, modsPaths), 1, expectedModpackJar, Null, <<>>)

\* the orders in which the members of S can come
Orders(S) == { o \in [1..Cardinality(S) -> S] : \A i, j \in 1..Cardinality(S) : o[i] = o[j] => i = j }

\* checkLaunchRequirements once fetchLatestForgeVersion has returned forgeVersion
\* (launcher.js:409-481): the results it can return.  The reads started together by
\* Promise.all (line 454) fail in any order; all else is sequential.
checkLaunchRequirements(f, den, expectedModpackVersion, forgeVersion) ==
    LET minecraftPath == <<"versions", DEFAULT_MC_VERSION[1], jsonName(DEFAULT_MC_VERSION)>>
        forgePath == IF Truthy(forgeVersion)
                     THEN <<"versions", forgeVersion[1], jsonName(forgeVersion)>>
                     ELSE Null
        forgeInstallerPath == getForgeInstallerPath(forgeVersion)
        modsPath == <<"modpack", "mods">>
        fallbackModsPath == <<"mods">>
        nested == findNestedModDirectories(f, den)
        modDirectories == uniquePaths(<<modsPath, fallbackModsPath>> \o nested.modDirectories)
        minecraftPresent == access(f, den, minecraftPath)
        forgePresent == IF forgePath # Null
                        THEN access(f, den, forgePath) \/ access(f, den, forgeInstallerPath)
                        ELSE forgeInstallerPath # Null /\ access(f, den, forgeInstallerPath)
        expectedModpackJar == expectedJar(expectedModpackVersion)
        modsEntries == [i \in 1..Len(modDirectories) |-> readDirSafe(f, den, modDirectories[i])]
        failed == { i \in 1..Len(modDirectories) : modsEntries[i].errors # <<>> }
        detected == detectModpackVersion(f, den, modDirectories, expectedModpackJar)
        modpackPresent == detected.modpackJarPresent
                          \/ \E i \in 1..Len(modDirectories) : Len(modsEntries[i].entries) > 0
    IN  { [ threw |-> FALSE,
            minecraftVersion |-> DEFAULT_MC_VERSION,
            forgeVersion |-> forgeVersion,
            forgeInstallerPath |-> forgeInstallerPath,
            modpackVersion |-> detected.detectedVersion,
            searchedModDirectories |-> modDirectories,
            modpackErrors |-> nested.errors
                              \o [k \in 1..Cardinality(failed) |-> modsEntries[o[k]].errors[1]]
                              \o detected.errors,
            modpackDiagnostics |-> [modDirectories |-> modDirectories,
                                    expectedModpackJar |-> expectedModpackJar],
            requirements |-> [minecraft |-> minecraftPresent, forge |-> forgePresent,
                              modpack |-> modpackPresent] ] : o \in Orders(failed) }

\* a rejection of checkLaunchRequirements
Threw(msg) == [threw |-> TRUE, message |-> msg]

\* fetchLatestForgeVersion (launcher.js:199-217) given what its GET comes to: the
\* version returned (Null when it throws) and the cache afterwards
fetchLatestForgeVersion(cached, lookup) ==
    IF Truthy(cached) THEN [version |-> cached, cache |-> cached, message |-> ""]
    ELSE CASE lookup = "ok" -> [version |-> LatestForge, cache |-> LatestForge, message |-> ""]
           [] OTHER -> [version |-> Null, cache |-> cached, message |-> "request failed"]

\* the outcomes of one call of checkLaunchRequirements, lookup included
checkOutcomes(f, den, expectedModpackVersion, cached, lookup) ==
    LET forge == fetchLatestForgeVersion(cached, lookup)
    IN  IF forge.version = Null
        THEN { Threw(forge.message) }
        ELSE checkLaunchRequirements(f, den, expectedModpackVersion, forge.version)


\* a readiness that also asks for Minecraft and Forge
readyToLaunch_NeedsRuntime(installDirExists, installedVersion, requirements) ==
    installDirExists /\ Truthy(installedVersion) /\ requirements.modpack
    /\ requirements.minecraft /\ requirements.forge

\* readyToLaunch (main.js:130)
readyToLaunch(installDirExists, installedVersion, requirements) ==
    installDirExists /\ Truthy(installedVersion) /\ requirements.modpack

\* ------------------------------------------------ main.js: installation state
\* getInstallationState (main.js:111-143) from the value of existsSync(dir) it took
\* at its start, the outcome of checkLaunchRequirements and the store as it is when
\* that call has settled
getInstallationState(installDirExists, check, st) ==
    LET requirements == IF check.threw THEN NoRequirements ELSE check.requirements
        installedVersion == Or(st.installedVersion, Empty)
        lastKnownVersion == Or(st.lastKnownVersion, Empty)
    IN  [ installDirExists |-> installDirExists,
          isInstalled |-> readyToLaunch(installDirExists, installedVersion, requirements),
          installedVersion |-> installedVersion,
          lastKnownVersion |-> lastKnownVersion,
          requirements |-> requirements,
          forgeVersion |-> IF check.threw THEN Null ELSE check.forgeVersion,
          minecraftVersion |-> IF check.threw THEN Null ELSE check.minecraftVersion ]

\* what the GET of the feed URL can answer: unreachable, or a status and a document
FeedAnswers ==
    { [ok |-> FALSE, url |-> Null, version |-> Null],
      [ok |-> TRUE, url |-> Null, version |-> <<"4.0.0">>],
      [ok |-> TRUE, url |-> RealZipUrl, version |-> Null],
      [ok |-> TRUE, url |-> RealZipUrl, version |-> <<"4.0.0">>] }

\* fetchFeedManifest (update.js:42-63): the manifest, or threw
fetchFeedManifest(answer) ==
    IF ~answer.ok \/ ~Truthy(answer.url)
    THEN [threw |-> TRUE, url |-> Null, version |-> Null]
    ELSE [threw |-> FALSE, url |-> answer.url, version |-> Or(answer.version, Null)]

\* the versions a renderer passes to hellas:update-known-version
KnownVersions == { Empty, <<"9.9.9">> }

\* ------------------------------------------------ main.js: account and session
\* the persisted 'account' record; accessToken is Empty when the record has no such key
Account(username, refreshToken, accessToken) ==
    [username |-> username, refreshToken |-> refreshToken, accessToken |-> accessToken]

\* store.set('account', { username: '', refreshToken: '' }) (main.js:76, 107, 408)
BlankAccount == Account(Empty, Empty, Empty)

\* what the store file may hold for 'account' when the process starts: nothing (the
\* defaults apply), a record written by this version, one written by a version that
\* persisted the access token
StoredAccounts ==
    { BlankAccount,
      Account(<<"alice">>, <<"refresh-1">>, Empty),
      Account(<<"alice">>, Empty, Empty),
      Account(<<"bob">>, <<"refresh-3">>, Empty),
      Account(<<"bob">>, Empty, <<"access-0">>),
      Account(<<"alice">>, <<"refresh-1">>, <<"access-0">>),
      Account(Empty, Empty, <<"access-0">>) }

Session(username, uuid, accessToken, refreshToken) ==
    [username |-> username, uuid |-> uuid, accessToken |-> accessToken, refreshToken |-> refreshToken]

\* clearSessionAccount (main.js:69-71)
clearSessionAccount == Session(Empty, Empty, Empty, Empty)

\* the sessions a login can produce (auth.js:179-192); the last one lacks its access token
Sessions ==
    { Session(<<"alice">>, <<"uuid-a">>, <<"access-1">>, <<"refresh-2">>),
      Session(<<"alice">>, <<"uuid-a">>, <<"access-3">>, <<"refresh-4">>),
      Session(<<"bob">>, Empty, <<"access-2">>, Empty),
      Session(<<"bob">>, <<"uuid-b">>, Empty, <<"refresh-3">>) }

\* the outcomes of pollDeviceCode (auth.js:194-215)
PollStatuses == {"success", "pending", "declined"}

\* a store creation that keeps whatever account record it finds
createStore_KeepsStored(stored) == stored

\* createStore (main.js:24-43): the 'account' record once the store is created
createStore(stored) ==
    IF Truthy(stored.accessToken)
    THEN Account(Or(stored.username, Empty), Empty, Empty)
    ELSE stored

\* setSession (main.js:73-92): the session and the persisted record it leaves
setSession(session) ==
    IF ~Truthy(session.username) \/ ~Truthy(session.accessToken)
    THEN [session |-> clearSessionAccount, account |-> BlankAccount]
    ELSE [session |-> Session(session.username, Or(session.uuid, Empty), session.accessToken,
                              Or(session.refreshToken, Empty)),
          account |-> Account(session.username, Or(session.refreshToken, Empty), Empty)]

\* the hellas:launch-game invocations of one behaviour
Launches == 1..MaxLaunches

\* an error or status message: its fixed text, the filesystem errors it lists and the
\* mod directories it lists
Message(text, details, searched) == [text |-> text, details |-> details, searched |-> searched]
NoMessage == Message("", <<>>, <<>>)

NotLoggedInError == "Please log in with your Minecraft account before launching."
NotInstalledError == "Cannot launch until the modpack and dependencies are installed."
AlreadyRunningError == "A launch is already running."
AlreadyInProgressError == "A launch is already in progress. Please wait or cancel it."
MissingComponentsError == "Cannot launch yet. Missing components: MODPACK."

\* the locals of one hellas:launch-game invocation and of its launchModpack call
NoLaunch ==
    [ pc |-> "idle", outcome |-> "none", message |-> NoMessage,
      account |-> clearSessionAccount,  \* getSessionAccount() at the start
      installDirExists |-> FALSE,       \* existsSync(dir) of the handler's getInstallationState
      detected |-> Threw(""),           \* what the handler's detection came to
      check |-> Threw(""),              \* what launchModpack's detection came to
      reported |-> <<>>,                \* components named missing in a status message
      fetched |-> {},                   \* components the workflow has tried to fetch
      promise |-> "none",               \* launchPromise: "pending", "resolved", "rejected"
      launched |-> FALSE ]              \* launcher.launch was called

\* no account, nobody logged in, no launch
NoLaunching ==
    /\ account = BlankAccount
    /\ sessionAccount = clearSessionAccount
    /\ auth = [boot |-> "ready", last |-> "none", polls |-> 0]
    /\ launchInProgress = FALSE
    /\ activeLaunch = 0
    /\ games = {}
    /\ launches = [l \in Launches |-> NoLaunch]

\* ------------------------------------------------------------------ Init
\* a remote host: the answers it may give, the archives it may serve, the sizes of the
\* chunks its bodies arrive in and the number of chunks the model follows
World(responses, archives) ==
    [responses |-> responses, archives |-> archives, chunkSizes |-> ChunkSizes, chunks |-> MaxChunks]

\* an environment, an install root and the installedVersion persisted for it
Scenario(e, f) == <<e, f, IF f = FsAbsent THEN Empty ELSE <<"1.0.0">> >>

Scenarios == { Scenario(EnvDefault, FsAbsent), Scenario(EnvDirect, FsPrior), Scenario(EnvFeed, FsPrior) }

AllScenarios == { Scenario(e, f) : e \in {EnvDefault, EnvDirect, EnvFeed}, f \in {FsAbsent, FsPrior} }

InitWith(n, worlds, scenarios) ==
    /\ \E scenario \in scenarios :
          /\ env = scenario[1]
          /\ fs = scenario[2]
          /\ store = [installedVersion |-> scenario[3], lastKnownVersion |-> scenario[3]]
    /\ remote \in worlds
    /\ quota = n
    /\ updateInProgress = FALSE
    /\ updateAbortController = 0
    /\ tmp = {}
    /\ nreq = 0
    /\ req = [r \in Requests |-> Idle]
    /\ cachedForgeVersion = Null
    /\ denied = {}
    /\ query = NoQuery
    /\ checks = <<>>
    /\ NoLaunching

\* MaxRequests requests against a host that answers plainly and serves the canonical archive
Init ==
    InitWith(MaxRequests, { World(PlainResponses, {"canonical"}) }, Scenarios)

\* one request fewer, against a host that answers in any way and serves any one archive
InitOne ==
    InitWith(MaxRequests - 1,
             { World(FirstResponses, {a}) : a \in ArchiveNames },
             AllScenarios)

\* MaxRequests invocations, state queries among them, over an existing installation
\* with the default source or a Feed source
InitStore ==
    InitWith(MaxRequests, { World(PlainResponses, {"canonical"}) },
             { Scenario(EnvDefault, FsPrior), Scenario(EnvFeed, FsPrior) })

\* the same with a Direct source that names its version, or a Feed source
InitKnown ==
    InitWith(MaxRequests, { World(PlainResponses, {"canonical"}) },
             { Scenario(EnvVersioned, FsPrior), Scenario(EnvFeed, FsPrior) })

\* one request fewer, under any environment, over an existing installation
InitEnv ==
    InitWith(MaxRequests - 1, { World(PlainResponses, {"canonical"}) },
             { Scenario(e, FsPrior) : e \in Envs })

\* answers with a content-length that is unknown, smaller than what is received, or
\* larger, next to the plain ones
ProgressResponses ==
    PlainResponses
    \cup { Response(TRUE, "application/zip", 0, "zip"),
           Response(TRUE, "application/zip", 2, "zip"),
           Response(TRUE, "application/octet-stream", 7, "zip") }

\* the chunks of a body followed in the download runs
ProgressChunkSizes == {1, 3}
ProgressChunks == MaxChunks + 2

\* one request over an existing installation, its body arriving in several chunks of
\* several sizes
InitProgress ==
    InitWith(MaxRequests - 1,
             { [World(ProgressResponses, {"canonical"}) EXCEPT !.chunkSizes = ProgressChunkSizes,
                                                               !.chunks = ProgressChunks] },
             { Scenario(EnvDefault, FsPrior) })

\* the install roots detection is run on: none, an empty one, installations with one
\* jar, with jars in several directories, without any jar, and roots in which a name is
\* taken by something of the other kind
RECURSIVE rootWith(_)
rootWith(files) ==
    IF files = <<>> THEN mkdir(FsAbsent, targetDir)
    ELSE writeFile(rootWith(Tail(files)), Head(files), Content("prior", Head(files)))

MinecraftJson == <<"versions", "1.16.5", "1.16.5.json">>
ForgeJson == <<"versions", "1.16.5-36.2.39", "1.16.5-36.2.39.json">>
ForgeInstaller == <<"forge", "1.16.5-36.2.39", "forge-1.16.5-36.2.39-installer.jar">>

DetectRoots ==
    { FsAbsent,
      rootWith(<<>>),
      rootWith(<< MinecraftJson, ForgeJson >>),
      rootWith(<< MinecraftJson, ForgeJson, <<"modpack", "mods", "hellasforms-1.0.0.jar">> >>),
      rootWith(<< MinecraftJson, ForgeInstaller, <<"modpack", "mods", "hellasforms-2.0.0.jar">> >>),
      rootWith(<< ForgeJson, <<"modpack", "mods", "jei.jar">> >>),
      rootWith(<< <<"modpack", "mods", "hellasforms-1.0.0.jar">>, <<"mods", "hellasforms-2.0.0.jar">> >>),
      rootWith(<< MinecraftJson, <<"custom", "mods", "HellasForms-3.0.0.JAR">> >>),
      rootWith(<< <<"mods", "hellasforms-1.0.0.jar.bak">> >>),
      rootWith(<< <<"modpack", "mods">>, <<"mods", "hellasforms-2.0.0.jar">> >>),
      mkdir(rootWith(<< MinecraftJson >>), <<"modpack", "mods", "hellasforms-1.0.0.jar">>) }

\* the paths that deny access
DeniedSets == { {}, { MinecraftJson }, { <<"modpack", "mods">> }, { <<>> } }

\* the expectedModpackVersion a caller passes; Null for none
ExpectedVersions == { Null, <<"1.0.0">>, <<"2.0.0">> }

InitDetect ==
    /\ env = EnvDefault
    /\ fs \in DetectRoots
    /\ denied \in DeniedSets
    /\ \E v \in { Empty, <<"1.0.0">> } : store = [installedVersion |-> v, lastKnownVersion |-> v]
    /\ remote = World(PlainResponses, {"canonical"})
    /\ quota = MaxRequests
    /\ updateInProgress = FALSE
    /\ updateAbortController = 0
    /\ tmp = {}
    /\ nreq = 0
    /\ req = [r \in Requests |-> Idle]
    /\ cachedForgeVersion = Null
    /\ query = NoQuery
    /\ checks = <<>>
    /\ NoLaunching

\* ------------------------------------------------ launcher.js: launch
\* the requirements that are not met, in the order of Object.entries (launcher.js:522-524)
missing(requirements) ==
    SelectSeq(<<"minecraft", "forge", "modpack">>, LAMBDA key : ~requirements[key])

\* the error launchModpack throws for a missing modpack (launcher.js:527-539): every
\* entry of modpackErrors as path, message and code, then the searched directories
blockedMessage(check) ==
    Message(MissingComponentsError, check.modpackErrors, check.searchedModDirectories)

\* a workflow that treats every missing component as blocking
missingCritical_Any(requirements) == missing(requirements)

\* missingCritical (launcher.js:526)
missingCritical(requirements) ==
    SelectSeq(missing(requirements), LAMBDA item : item = "modpack")

MinecraftJar == <<"versions", "1.16.5", "1.16.5.jar">>
Log4jConfig == <<"log4j2_112-116.xml">>

\* stats.isFile() of fsp.stat(p), false when the stat fails
isFile(f, den, p) == exists(f, p) /\ f[p] # Dir /\ ~Inaccessible(den, p)

\* fsp.mkdir(d, { recursive: true }) succeeds: nothing on the way is a file or denies access
canMkdir(f, den, d) ==
    /\ ~Inaccessible(den, d)
    /\ \A q \in Prefixes(d) : exists(f, q) => f[q] = Dir

\* a file can be created at p
writable(f, den, p) ==
    /\ canMkdir(f, den, Parent(p))
    /\ ~Inaccessible(den, p)
    /\ exists(f, p) => f[p] # Dir

\* ensureMinecraftVersion (launcher.js:264-309): the ways it can end, each with the
\* install root it leaves
ensureMinecraftVersion(f, den) ==
    IF isFile(f, den, MinecraftJson) /\ isFile(f, den, MinecraftJar)
    THEN { [ok |-> TRUE, fs |-> f] }
    ELSE { [ok |-> FALSE, fs |-> f] }
         \cup (IF writable(f, den, MinecraftJson)
               THEN LET profile == writeFile(f, MinecraftJson, Content("mojang", MinecraftJson))
                    IN  { [ok |-> FALSE, fs |-> profile] }
                        \cup (IF writable(profile, den, MinecraftJar)
                              THEN { [ok |-> TRUE,
                                      fs |-> writeFile(profile, MinecraftJar, Content("mojang", MinecraftJar))] }
                              ELSE {})
               ELSE {})

\* ensureForgeInstaller (launcher.js:311-339)
ensureForgeInstaller(f, den, forgeVersion) ==
    LET installerPath == getForgeInstallerPath(forgeVersion)
    IN  IF installerPath = Null THEN { [ok |-> TRUE, fs |-> f] }
        ELSE IF isFile(f, den, installerPath) THEN { [ok |-> TRUE, fs |-> f] }
        ELSE IF ~writable(f, den, installerPath) THEN { [ok |-> FALSE, fs |-> f] }
        ELSE { [ok |-> FALSE, fs |-> mkdir(f, Parent(installerPath))],
               [ok |-> TRUE, fs |-> writeFile(f, installerPath, Content("forge", installerPath))] }

\* findGameDirectory (launcher.js:164-197): whether it returns, and the install root
\* it leaves
findGameDirectory(f, den) ==
    IF canMkdir(f, den, modpackDir)
    THEN [ok |-> TRUE, fs |-> mkdir(f, modpackDir)]
    ELSE IF readdirCode(f, den, targetDir) # "ok"
    THEN [ok |-> FALSE, fs |-> f]
    ELSE [ok |-> \/ \E p \in readdir(f, targetDir) : f[p] = Dir /\ lowerToken(p[Len(p)]) = "mods"
                 \/ \E p \in readdir(f, targetDir) :
                       /\ f[p] = Dir
                       /\ readdirCode(f, den, p) = "ok"
                       /\ \E q \in readdir(f, p) : f[q] = Dir /\ lowerToken(q[Len(q)]) = "mods",
          fs |-> f]

\* ensureLog4jConfig (launcher.js:247-262)
ensureLog4jConfig(f, den) ==
    IF isFile(f, den, Log4jConfig) THEN { [ok |-> TRUE, fs |-> f] }
    ELSE { [ok |-> FALSE, fs |-> f] }
         \cup (IF writable(f, den, Log4jConfig)
               THEN { [ok |-> TRUE, fs |-> writeFile(f, Log4jConfig, Content("mojang", Log4jConfig))] }
               ELSE {})

\* the major versions detectJavaVersion can report; 0 when it cannot tell
JavaMajors == {0, 8, 17}

\* ![8, 11].includes(javaMajor) for a known major (launcher.js:650)
javaIncompatible(javaMajor) == javaMajor # 0 /\ javaMajor \notin {8, 11}

\* the install roots a launch is asked for: complete, without Minecraft and Forge,
\* without Minecraft, without any mod
LaunchRoots ==
    { rootWith(<< MinecraftJson, MinecraftJar, ForgeJson, <<"modpack", "mods", "hellasforms-1.0.0.jar">> >>),
      rootWith(<< <<"modpack", "mods", "hellasforms-1.0.0.jar">> >>),
      rootWith(<< ForgeInstaller, Log4jConfig, <<"mods", "jei.jar">> >>),
      rootWith(<< MinecraftJson, ForgeJson >>) }

\* an installation at 1.0.0 and a player who is logged in, or not
InitLaunchWith(n) ==
    /\ env = EnvDefault
    /\ fs \in LaunchRoots
    /\ denied \in { {}, { <<"modpack", "mods">> } }
    /\ store = [installedVersion |-> <<"1.0.0">>, lastKnownVersion |-> <<"1.0.0">>]
    /\ remote = World(PlainResponses, {"canonical"})
    /\ quota = n
    /\ updateInProgress = FALSE
    /\ updateAbortController = 0
    /\ tmp = {}
    /\ nreq = 0
    /\ req = [r \in Requests |-> Idle]
    /\ cachedForgeVersion = Null
    /\ query = NoQuery
    /\ checks = <<>>
    /\ \E session \in { clearSessionAccount, Session(<<"alice">>, <<"uuid-a">>, <<"access-1">>, <<"refresh-2">>) } :
          /\ sessionAccount = session
          /\ account = Account(session.username, session.refreshToken, Empty)
    /\ auth = [boot |-> "ready", last |-> "none", polls |-> 0]
    /\ launchInProgress = FALSE
    /\ activeLaunch = 0
    /\ games = {}
    /\ launches = [l \in Launches |-> NoLaunch]

InitLaunch == InitLaunchWith(MaxRequests + 1)

\* the process before createStore, with whatever the store file holds
InitAccount ==
    /\ env = EnvDefault
    /\ fs = FsPrior
    /\ denied = {}
    /\ store = [installedVersion |-> <<"1.0.0">>, lastKnownVersion |-> <<"1.0.0">>]
    /\ remote = World(PlainResponses, {"canonical"})
    /\ quota = MaxRequests + 1
    /\ updateInProgress = FALSE
    /\ updateAbortController = 0
    /\ tmp = {}
    /\ nreq = 0
    /\ req = [r \in Requests |-> Idle]
    /\ cachedForgeVersion = Null
    /\ query = NoQuery
    /\ checks = <<>>
    /\ account \in StoredAccounts
    /\ sessionAccount = clearSessionAccount
    /\ auth = [boot |-> "start", last |-> "none", polls |-> 0]
    /\ launchInProgress = FALSE
    /\ activeLaunch = 0
    /\ games = {}
    /\ launches = [l \in Launches |-> NoLaunch]

\* ------------------------------------------------------------- IPC handlers
\* An invocation that has sent its last update-progress event is retired (Retire, below)
\* in the step that settled it: no other step comes between.
Settling == (\E r \in Requests : req[r].pc \in {"settled", "replied"}) \/ query.pc = "replied"

NewRequest(k) == [Idle EXCEPT !.kind = k, !.fs0 = fs, !.installed0 = store.installedVersion]

Unconfigured(rec) ==
    [rec EXCEPT !.pc = "settled", !.outcome = "unconfigured", !.message = NotConfiguredError]

\* hellas:perform-install up to its first await (main.js:339-347)
PerformInstall ==
    /\ ~Settling
    /\ nreq < quota
    /\ nreq' = nreq + 1
    /\ req' = [req EXCEPT ![nreq + 1] =
                 IF SourceNotConfigured(resolveUpdateSource)
                 THEN Unconfigured(NewRequest("install"))
                 ELSE [NewRequest("install") EXCEPT !.pc = "mkdirInstallDir"]]
    /\ UNCHANGED <<launching, detection, env, remote, quota, store, updateInProgress, updateAbortController, fs, tmp>>

\* hellas:perform-install once mkdir(dir) has returned (main.js:347-354)
MkdirInstallDirDone(r) ==
    /\ ~Settling
    /\ req[r].pc = "mkdirInstallDir"
    /\ fs' = mkdir(fs, targetDir)
    /\ runUpdateTask(r, req[r])
    /\ UNCHANGED <<launching, detection, env, remote, quota, tmp, nreq>>

\* hellas:trigger-update up to its first await (main.js:457-470)
TriggerUpdate ==
    /\ ~Settling
    /\ nreq < quota
    /\ nreq' = nreq + 1
    /\ fs' = fs
    /\ IF SourceNotConfigured(resolveUpdateSource)
       THEN /\ req' = [req EXCEPT ![nreq + 1] = Unconfigured(NewRequest("update"))]
            /\ UNCHANGED <<store, updateInProgress, updateAbortController>>
       ELSE runUpdateTask(nreq + 1, NewRequest("update"))
    /\ UNCHANGED <<launching, detection, env, remote, quota, tmp>>

\* hellas:fresh-reinstall up to its first await (main.js:492-503)
FreshReinstall ==
    /\ ~Settling
    /\ nreq < quota
    /\ nreq' = nreq + 1
    /\ fs' = fs
    /\ IF SourceNotConfigured(resolveUpdateSource)
       THEN /\ req' = [req EXCEPT ![nreq + 1] = Unconfigured(NewRequest("reinstall"))]
            /\ UNCHANGED <<store, updateInProgress, updateAbortController>>
       ELSE runUpdateTask(nreq + 1, NewRequest("reinstall"))
    /\ UNCHANGED <<launching, detection, env, remote, quota, tmp>>

\* a cancel that claims success whether or not an operation is running
cancelActiveUpdate_AlwaysTrue(controller) ==
    [returned |-> TRUE, aborts |-> IF controller # 0 THEN {controller} ELSE {}]

\* cancelActiveUpdate (main.js:163-170) given updateAbortController: what it returns
\* and the controllers it aborts
cancelActiveUpdate(controller) ==
    IF controller # 0
    THEN [returned |-> TRUE, aborts |-> {controller}]
    ELSE [returned |-> FALSE, aborts |-> {}]

\* hellas:cancel-update (main.js:404) or the window's close handler calls
\* cancelActiveUpdate; a call that aborts nothing, or a signal aborted already, changes
\* nothing
CancelUpdate ==
    /\ ~Settling
    /\ \E r \in cancelActiveUpdate(updateAbortController).aborts :
          /\ ~req[r].aborted
          /\ req' = [req EXCEPT ![r].aborted = TRUE, ![r].cancelAt = req[r].pc]
    /\ UNCHANGED <<launching, detection, env, remote, quota, store, updateInProgress, updateAbortController, fs, tmp, nreq>>

\* ------------------------------------------------------ steps of a running task
\* the temporary file exists once a write stream that was left to open has opened it
TmpAfter(r, rec) == IF rec.fileStream = "open" THEN tmp \cup {r} ELSE tmp

Step(r, rec) ==
    /\ tmp' = TmpAfter(r, rec)
    /\ Continue(r, rec)
    /\ UNCHANGED <<launching, detection, env, remote, quota, nreq>>

\* freshReinstall: rm(targetDir) has returned (update.js:314-316)
RmInstallDirDone(r) ==
    /\ ~Settling
    /\ req[r].pc = "rmInstallDir"
    /\ fs' = rm(fs, targetDir)
    /\ Step(r, downloadAndExtractUpdateBegin(req[r], fs'))

\* the first fetch settles (update.js:159-175): rejected by the abort signal, failed
\* on the network, or answered
FetchDone(r) ==
    /\ ~Settling
    /\ req[r].pc = "fetch"
    /\ fs' = fs
    /\ IF req[r].aborted
       THEN Step(r, catchBlock(req[r], "cancelled", "The user aborted a request."))
       ELSE \/ Step(r, catchBlock(req[r], "error", "request failed"))
            \/ \E response \in remote.responses : Step(r, afterFetch(req[r], response))

\* response.clone().json() settles (update.js:177-190)
DescriptorJsonDone(r) ==
    /\ ~Settling
    /\ req[r].pc = "descriptorJson"
    /\ fs' = fs
    /\ IF req[r].aborted
       THEN Step(r, descriptorCatch(req[r], "cancelled", "The user aborted a request."))
       ELSE Step(r, afterDescriptorJson(req[r]))

\* the re-issued fetch settles (update.js:190-198)
FetchDescriptorDone(r) ==
    /\ ~Settling
    /\ req[r].pc = "fetchDescriptor"
    /\ fs' = fs
    /\ IF req[r].aborted
       THEN Step(r, descriptorCatch(req[r], "cancelled", "The user aborted a request."))
       ELSE \/ Step(r, descriptorCatch(req[r], "error", "request failed"))
            \/ \E response \in SecondResponses : Step(r, afterFetchDescriptor(req[r], response))

\* a chunk arrives (update.js:223-232)
DownloadData(r) ==
    /\ ~Settling
    /\ req[r].pc = "downloading"
    /\ ~req[r].aborted
    /\ req[r].chunks < remote.chunks
    /\ fs' = fs
    /\ \E n \in remote.chunkSizes : Step(r, onData(req[r], n))

\* the body or the write stream fails (update.js:234-242)
DownloadError(r) ==
    /\ ~Settling
    /\ req[r].pc = "downloading"
    /\ ~req[r].aborted
    /\ fs' = fs
    /\ Step(r, catchBlock(req[r], "error", "stream error"))

\* handleAbort, run by the signal's abort event (update.js:208-213)
DownloadAborted(r) ==
    /\ ~Settling
    /\ req[r].pc = "downloading"
    /\ req[r].aborted
    /\ fs' = fs
    /\ Step(r, catchBlock(req[r], "cancelled", "Update cancelled by user."))

\* the write stream finishes (update.js:244-254, 259-260)
DownloadFinish(r) ==
    /\ ~Settling
    /\ req[r].pc = "downloading"
    /\ ~req[r].aborted
    /\ fs' = fs
    /\ \E digest \in Digests : Step(r, onFinish(req[r], digest))

\* mkdir(targetDir) and ensureModpackStructure return, or one of them fails
\* (update.js:260-261)
Prepare(r) ==
    /\ ~Settling
    /\ req[r].pc = "prepare"
    /\ \/ /\ fs' = ensureModpackStructure(mkdir(fs, targetDir))
          /\ Step(r, [req[r] EXCEPT !.pc = "purge"])
       \/ /\ fs' = fs
          /\ Step(r, catchBlock(req[r], "error", "EACCES: permission denied, mkdir"))

\* the rm calls for modpack/mods, modpack/resourcepacks and mods return (update.js:266-268)
Purge(r) ==
    /\ ~Settling
    /\ req[r].pc = "purge"
    /\ fs' = purge(fs)
    /\ Step(r, [req[r] EXCEPT !.pc = "extract"])

\* the archives a downloaded body can turn out to be; "invalid" makes AdmZip throw
ArchivesOf(body) == IF body = "zip" THEN remote.archives \cup {"invalid"} ELSE {"invalid"}

\* the last rm returns; the cancellation check, the 'extracting' event and the
\* synchronous unpacking follow (update.js:269-284).  extractAllTo writes every entry
\* or throws at the last one.

Extract(r) ==
    /\ ~Settling
    /\ req[r].pc = "extract"
    /\ LET purged == purgeLast(fs)
           extracting == [req[r] EXCEPT !.events = Append(@, Event("extracting", PROGRESS_PHASE_DOWNLOAD))]
       IN  IF ensureNotCancelled(req[r].aborted)
           THEN /\ fs' = purged
                /\ Step(r, catchBlock(req[r], "cancelled", "Update cancelled by user."))
           ELSE \E a \in ArchivesOf(req[r].response.body) :
                   IF a = "invalid"
                   THEN /\ fs' = purged
                        /\ Step(r, catchBlock(extracting, "error", "Invalid or unsupported zip format."))
                   ELSE \/ /\ fs' = extractEntries(mkdirEntries(purged, Archive(a)), Archive(a), Len(Archive(a)))
                           /\ Step(r, [extracting EXCEPT !.archive = a, !.pc = "normalize"])
                        \/ /\ fs' = extractEntries(mkdirEntries(purged, Archive(a)), Archive(a), Len(Archive(a)) - 1)
                           /\ Step(r, catchBlock([extracting EXCEPT !.archive = a], "error", "EPERM: operation not permitted, open"))

\* the normalisation calls return (update.js:284-291), or the first rename of
\* moveDirectoryContents(legacyModsDir, modsDir) fails
Normalize(r) ==
    /\ ~Settling
    /\ req[r].pc = "normalize"
    /\ \/ /\ \E exdev \in BOOLEAN : fs' = normalize(fs, exdev)
          /\ Step(r, [req[r] EXCEPT !.events = Append(@, Event("finalizing", 95)),
                                    !.pending = "ok", !.pc = "unlink"])
       \/ /\ isDirectory(fs, legacyModsDir)
          /\ readdir(fs, legacyModsDir) # {}
          /\ fs' = moveDirectoryContentsFailed(ensureModpackStructure(fs), legacyModsDir, modsDir)
          /\ Step(r, catchBlock(req[r], "error", "EPERM: operation not permitted, rename"))

\* the unlink of the finally block returns; the task settles (update.js:299-305)
Unlink(r) ==
    /\ ~Settling
    /\ req[r].pc = "unlink"
    /\ fs' = fs
    /\ tmp' \in unlinkTemp(r)
    /\ Settle(r, req[r])
    /\ UNCHANGED <<launching, detection, env, remote, quota, nreq>>

\* The invocation has sent its last update-progress event, or has returned.  Its
\* locals and the record of its events are dropped, its outcome kept; a completed
\* handler still awaits the getInstallationState() it has called (main.js:366-368).
Retire(r) ==
    /\ req[r].pc \in {"settled", "replied"}
    /\ req' = [req EXCEPT ![r] =
                 [Idle EXCEPT !.outcome = req[r].outcome,
                              !.installDirExists = req[r].installDirExists,
                              !.pc = IF req[r].pc = "settled" /\ req[r].outcome = "completed"
                                     THEN "getInstallationState" ELSE "done"]]
    /\ UNCHANGED <<launching, detection, env, remote, quota, store, updateInProgress, updateAbortController, fs, tmp, nreq>>

\* the handler's getInstallationState() returns (main.js:368, 484, 517); the reads of
\* one detection are taken together
GetInstallationStateDone(r) ==
    /\ ~Settling
    /\ req[r].pc = "getInstallationState"
    /\ \E lookup \in ForgeLookups :
          \E check \in checkOutcomes(fs, denied, Null, cachedForgeVersion, lookup) :
             /\ cachedForgeVersion' = fetchLatestForgeVersion(cachedForgeVersion, lookup).cache
             /\ req' = [req EXCEPT ![r].pc = "replied",
                                   ![r].installation =
                                       getInstallationState(req[r].installDirExists, check, store)]
    /\ UNCHANGED <<launching, denied, query, checks, env, remote, quota, store, updateInProgress,
                   updateAbortController, fs, tmp, nreq>>

\* ------------------------------------------------------------ state queries
\* hellas:get-installation and hellas:get-state up to the await inside
\* getInstallationState (main.js:111-119, 261-262, 525); one query is followed at a time
QueryBegin(kind) ==
    /\ ~Settling
    /\ nreq < quota
    /\ nreq' = nreq + 1
    /\ query.pc = "idle"
    /\ query' = [NoQuery EXCEPT !.pc = "checkLaunchRequirements", !.kind = kind,
                                !.installDirExists = exists(fs, targetDir)]
    /\ UNCHANGED <<launching, cachedForgeVersion, denied, checks, env, remote, quota, store, updateInProgress,
                   updateAbortController, fs, tmp, req>>

GetInstallation == QueryBegin("get-installation")

GetState == QueryBegin("get-state")

\* a write that sets installedVersion as well
setLastKnownVersion_Both(version) == [installedVersion |-> version, lastKnownVersion |-> version]

\* a write of lastKnownVersion (main.js:272, 279, 529)
setLastKnownVersion(version) == [store EXCEPT !.lastKnownVersion = version]

\* checkLaunchRequirements settles; getInstallationState returns and, for
\* hellas:get-state, the handler goes on to its next await or its return
\* (main.js:119-143, 262-281)
QueryCheckDone ==
    /\ ~Settling
    /\ query.pc = "checkLaunchRequirements"
    /\ \E lookup \in ForgeLookups :
          \E check \in checkOutcomes(fs, denied, Null, cachedForgeVersion, lookup) :
             LET installation == getInstallationState(query.installDirExists, check, store)
                 updateSource == resolveUpdateSource
                 got == [query EXCEPT !.installation = installation]
             IN  /\ cachedForgeVersion' = fetchLatestForgeVersion(cachedForgeVersion, lookup).cache
                 /\ IF query.kind = "get-state" /\ updateSource.type = "feed"
                    THEN /\ query' = [got EXCEPT !.pc = "fetchFeedManifest"]
                         /\ store' = store
                    ELSE IF query.kind = "get-state" /\ updateSource.type = "direct"
                            /\ Truthy(updateSource.version)
                    THEN /\ query' = [got EXCEPT !.pc = "replied"]
                         /\ store' = setLastKnownVersion(updateSource.version)
                    ELSE /\ query' = [got EXCEPT !.pc = "replied"]
                         /\ store' = store
    /\ UNCHANGED <<launching, denied, checks, env, remote, quota, updateInProgress,
                   updateAbortController, fs, tmp, nreq, req>>

\* hellas:get-state: fetchFeedManifest settles (main.js:268-276)
QueryFeedDone ==
    /\ ~Settling
    /\ query.pc = "fetchFeedManifest"
    /\ \E answer \in FeedAnswers :
          LET manifest == fetchFeedManifest(answer)
          IN  store' = IF ~manifest.threw /\ Truthy(manifest.version)
                       THEN setLastKnownVersion(manifest.version)
                       ELSE store
    /\ query' = [query EXCEPT !.pc = "replied"]
    /\ UNCHANGED <<launching, cachedForgeVersion, denied, checks, env, remote, quota, updateInProgress,
                   updateAbortController, fs, tmp, nreq, req>>

\* the query has returned to the renderer
QueryRetire ==
    /\ query.pc = "replied"
    /\ query' = NoQuery
    /\ UNCHANGED <<launching, cachedForgeVersion, denied, checks, env, remote, quota, store, updateInProgress,
                   updateAbortController, fs, tmp, nreq, req>>

\* hellas:update-known-version (main.js:527-532)
UpdateKnownVersion ==
    /\ ~Settling
    /\ nreq < quota
    /\ nreq' = nreq + 1
    /\ \E version \in KnownVersions :
          store' = IF Truthy(version) THEN setLastKnownVersion(version) ELSE store
    /\ UNCHANGED <<launching, detection, env, remote, quota, updateInProgress,
                   updateAbortController, fs, tmp, req>>

\* a direct call of checkLaunchRequirements(installDir, expectedModpackVersion), as the
\* tests make it (launch-readiness.test.js:48, 67, 93)
CheckLaunchRequirements ==
    /\ ~Settling
    /\ Len(checks) < MaxChecks
    /\ \E expected \in ExpectedVersions, lookup \in ForgeLookups :
          \E check \in checkOutcomes(fs, denied, expected, cachedForgeVersion, lookup) :
             /\ cachedForgeVersion' = fetchLatestForgeVersion(cachedForgeVersion, lookup).cache
             /\ checks' = Append(checks, [expected |-> expected, result |-> check])
    /\ UNCHANGED <<launching, denied, query, env, remote, quota, store, updateInProgress,
                   updateAbortController, fs, tmp, nreq, req>>

\* ------------------------------------------------------ hellas:launch-game
\* what the launch handlers leave alone
updating == <<env, remote, quota, store, updateInProgress, updateAbortController, tmp, req,
              denied, query, checks, account, sessionAccount, auth>>

\* the handler's catch and finally (main.js:443-449): launchModpack threw
launchFailed(rec, outcome, message) ==
    [rec EXCEPT !.pc = "done", !.outcome = outcome, !.message = message]

\* hellas:launch-game up to its await of getInstallationState (main.js:413-420); the
\* requests of the renderer and the changes of the root share the quota
LaunchGame(l) ==
    /\ launches[l].pc = "idle"
    /\ nreq < quota
    /\ nreq' = nreq + 1
    /\ l > 1 => launches[l - 1].pc # "idle"
    /\ LET session == sessionAccount
       IN  launches' = [launches EXCEPT ![l] =
              IF ~Truthy(session.username) \/ ~Truthy(session.accessToken)
              THEN [NoLaunch EXCEPT !.pc = "done", !.outcome = "notLoggedIn",
                                    !.message = Message(NotLoggedInError, <<>>, <<>>)]
              ELSE [NoLaunch EXCEPT !.pc = "getInstallationState", !.account = session,
                                    !.installDirExists = exists(fs, targetDir)]]
    /\ UNCHANGED <<updating, fs, cachedForgeVersion, launchInProgress, activeLaunch, games>>

\* getInstallationState returns; the handler tests the installation and the launch
\* guard, and launchModpack runs up to its first await (main.js:420-436,
\* launcher.js:510-518)
LaunchInstallationDone(l) ==
    /\ launches[l].pc = "getInstallationState"
    /\ \E lookup \in ForgeLookups :
          \E check \in checkOutcomes(fs, denied, Null, cachedForgeVersion, lookup) :
             LET installation == getInstallationState(launches[l].installDirExists, check, store)
                 seen == [launches[l] EXCEPT !.detected = check]
             IN  /\ cachedForgeVersion' = fetchLatestForgeVersion(cachedForgeVersion, lookup).cache
                 /\ IF ~installation.isInstalled
                    THEN /\ launches' = [launches EXCEPT ![l] =
                               launchFailed(seen, "notInstalled", Message(NotInstalledError, <<>>, <<>>))]
                         /\ UNCHANGED launchInProgress
                    ELSE IF launchInProgress \/ activeLaunch # 0
                    THEN /\ launches' = [launches EXCEPT ![l] =
                               launchFailed(seen, "alreadyRunning", Message(AlreadyRunningError, <<>>, <<>>))]
                         /\ UNCHANGED launchInProgress
                    ELSE /\ launches' = [launches EXCEPT ![l] = [seen EXCEPT !.pc = "ensureInstallDirExists"]]
                         /\ launchInProgress' = TRUE
    /\ UNCHANGED <<updating, nreq, fs, activeLaunch, games>>

\* launchModpack: ensureInstallDirExists returns (launcher.js:518-521)
LaunchEnsureInstallDirDone(l) ==
    /\ launches[l].pc = "ensureInstallDirExists"
    /\ fs' = mkdir(fs, targetDir)
    /\ launches' = [launches EXCEPT ![l].pc = "checkLaunchRequirements"]
    /\ UNCHANGED <<updating, nreq, cachedForgeVersion, launchInProgress, activeLaunch, games>>

\* where launchModpack goes once a component is dealt with (launcher.js:549-563)
afterRequirement(rec, requirements, done) ==
    IF ~requirements.minecraft /\ "minecraft" \notin done THEN "ensureMinecraftVersion"
    ELSE IF ~requirements.forge /\ "forge" \notin done THEN "ensureForgeInstaller"
    ELSE "findGameDirectory"

\* launchModpack: checkLaunchRequirements settles (launcher.js:520-549)
LaunchCheckDone(l) ==
    /\ launches[l].pc = "checkLaunchRequirements"
    /\ \E lookup \in ForgeLookups :
          \E check \in checkOutcomes(fs, denied, Null, cachedForgeVersion, lookup) :
             LET seen == [launches[l] EXCEPT !.check = check]
             IN  /\ cachedForgeVersion' = fetchLatestForgeVersion(cachedForgeVersion, lookup).cache
                 /\ IF check.threw
                    THEN /\ launches' = [launches EXCEPT ![l] =
                               launchFailed(seen, "failed", Message(check.message, <<>>, <<>>))]
                         /\ launchInProgress' = FALSE
                    ELSE IF missingCritical(check.requirements) # <<>>
                    THEN /\ launches' = [launches EXCEPT ![l] =
                               launchFailed(seen, "blocked", blockedMessage(check))]
                         /\ launchInProgress' = FALSE
                    ELSE /\ launches' = [launches EXCEPT ![l] =
                               [seen EXCEPT !.reported = missing(check.requirements),
                                            !.pc = afterRequirement(seen, check.requirements, {})]]
                         /\ UNCHANGED launchInProgress
    /\ UNCHANGED <<updating, nreq, fs, activeLaunch, games>>

\* launchModpack: ensureMinecraftVersion settles (launcher.js:549-555)
LaunchMinecraftDone(l) ==
    /\ launches[l].pc = "ensureMinecraftVersion"
    /\ \E o \in ensureMinecraftVersion(fs, denied) :
          LET tried == [launches[l] EXCEPT !.fetched = @ \cup {"minecraft"}]
          IN  /\ fs' = o.fs
              /\ IF o.ok
                 THEN /\ launches' = [launches EXCEPT ![l] =
                            [tried EXCEPT !.pc = afterRequirement(tried, tried.check.requirements, {"minecraft"})]]
                      /\ UNCHANGED launchInProgress
                 ELSE /\ launches' = [launches EXCEPT ![l] =
                            launchFailed(tried, "failed", Message("Failed while downloading Minecraft", <<>>, <<>>))]
                      /\ launchInProgress' = FALSE
    /\ UNCHANGED <<updating, nreq, cachedForgeVersion, activeLaunch, games>>

\* launchModpack: ensureForgeInstaller settles (launcher.js:557-563)
LaunchForgeDone(l) ==
    /\ launches[l].pc = "ensureForgeInstaller"
    /\ \E o \in ensureForgeInstaller(fs, denied, launches[l].check.forgeVersion) :
          LET tried == [launches[l] EXCEPT !.fetched = @ \cup {"forge"}]
          IN  /\ fs' = o.fs
              /\ IF o.ok
                 THEN /\ launches' = [launches EXCEPT ![l] = [tried EXCEPT !.pc = "findGameDirectory"]]
                      /\ UNCHANGED launchInProgress
                 ELSE /\ launches' = [launches EXCEPT ![l] =
                            launchFailed(tried, "failed", Message("Failed while downloading Forge", <<>>, <<>>))]
                      /\ launchInProgress' = FALSE
    /\ UNCHANGED <<updating, nreq, cachedForgeVersion, activeLaunch, games>>

\* launchModpack: findGameDirectory settles; the launch promise is made and its
\* listeners are put on the launcher (launcher.js:565-610)
LaunchGameDirectoryDone(l) ==
    /\ launches[l].pc = "findGameDirectory"
    /\ LET found == findGameDirectory(fs, denied)
       IN  /\ fs' = found.fs
           /\ IF found.ok
              THEN /\ launches' = [launches EXCEPT ![l].promise = "pending", ![l].pc = "ensureLog4jConfig"]
                   /\ UNCHANGED launchInProgress
              ELSE /\ launches' = [launches EXCEPT ![l] =
                         launchFailed(launches[l], "failed", Message("Could not resolve modpack folder", <<>>, <<>>))]
                   /\ launchInProgress' = FALSE
    /\ UNCHANGED <<updating, nreq, cachedForgeVersion, activeLaunch, games>>

\* launchModpack: ensureLog4jConfig settles (launcher.js:612-615)
LaunchLog4jDone(l) ==
    /\ launches[l].pc = "ensureLog4jConfig"
    /\ \E o \in ensureLog4jConfig(fs, denied) :
          /\ fs' = o.fs
          /\ IF o.ok
             THEN /\ launches' = [launches EXCEPT ![l].pc = "detectJavaVersion"]
                  /\ UNCHANGED launchInProgress
             ELSE /\ launches' = [launches EXCEPT ![l] =
                        launchFailed(launches[l], "failed", Message("Failed to prepare Log4j configuration", <<>>, <<>>))]
                  /\ launchInProgress' = FALSE
    /\ UNCHANGED <<updating, nreq, cachedForgeVersion, activeLaunch, games>>

\* launchModpack: detectJavaVersion settles; launcher.launch is called and the
\* launch promise awaited (launcher.js:626-689).  A promise that has settled already
\* clears activeLaunch and ends the await in the same step.
LaunchJavaDone(l) ==
    /\ launches[l].pc = "detectJavaVersion"
    /\ fs' = fs
    /\ \E javaMajor \in JavaMajors :
          IF javaIncompatible(javaMajor)
          THEN /\ launches' = [launches EXCEPT ![l] =
                     launchFailed(launches[l], "failed", Message("Incompatible Java runtime detected", <<>>, <<>>))]
               /\ launchInProgress' = FALSE
               /\ UNCHANGED <<activeLaunch, games>>
          ELSE /\ games' = games \cup {l}
               /\ CASE launches[l].promise = "pending" ->
                         /\ activeLaunch' = l
                         /\ launches' = [launches EXCEPT ![l].launched = TRUE, ![l].pc = "running"]
                         /\ UNCHANGED launchInProgress
                    [] launches[l].promise = "resolved" ->
                         /\ activeLaunch' = 0
                         /\ launches' = [launches EXCEPT ![l].launched = TRUE, ![l].pc = "done",
                                                         ![l].outcome = "launched"]
                         /\ launchInProgress' = FALSE
                    [] OTHER ->
                         /\ activeLaunch' = 0
                         /\ launches' = [launches EXCEPT ![l] =
                               launchFailed([launches[l] EXCEPT !.launched = TRUE], "failed",
                                            Message("Minecraft exited", <<>>, <<>>))]
                         /\ launchInProgress' = FALSE
    /\ UNCHANGED <<updating, nreq, cachedForgeVersion>>

\* the launcher emits 'close' for the game of launch g (launcher.js:582-589): every
\* launch promise whose listeners are on the launcher settles, the launches awaiting
\* theirs return or throw, and their finally blocks run (launcher.js:684-686,
\* main.js:447-449)
GameClose(g, code) ==
    /\ g \in games
    /\ games' = games \ {g}
    /\ LET listening == { l \in Launches : launches[l].promise = "pending" /\ launches[l].pc # "done" }
           awaiting == { l \in listening : launches[l].pc = "running" }
           settled == IF code = 0 THEN "resolved" ELSE "rejected"
       IN  /\ launches' = [l \in Launches |->
                 IF l \in awaiting
                 THEN [launches[l] EXCEPT !.promise = settled, !.pc = "done",
                          !.outcome = IF code = 0 THEN "launched" ELSE "failed",
                          !.message = IF code = 0 THEN NoMessage
                                      ELSE Message("Minecraft exited", <<>>, <<>>)]
                 ELSE IF l \in listening
                 THEN [launches[l] EXCEPT !.promise = settled]
                 ELSE launches[l]]
           /\ activeLaunch' = IF awaiting # {} THEN 0 ELSE activeLaunch
           /\ launchInProgress' = IF awaiting # {} THEN FALSE ELSE launchInProgress
    /\ UNCHANGED <<updating, nreq, fs, cachedForgeVersion>>

\* hellas:cancel-launch (main.js:452-455, launcher.js:697-704): launcher.kill() is
\* called when a launch promise is active; the game it kills closes in a later step
CancelLaunch ==
    /\ \E l \in Launches : launches[l].pc \notin {"idle", "done"}
    /\ launchInProgress
    /\ nreq < quota
    /\ nreq' = nreq + 1
    /\ launchInProgress' = FALSE
    /\ UNCHANGED <<updating, fs, cachedForgeVersion, activeLaunch, games, launches>>

\* the install root changes under the launcher between two of its reads: a reinstall
\* removes it (update.js:314), or the player moves files
InstallRootChanges ==
    /\ nreq < quota
    /\ nreq' = nreq + 1
    /\ \E l \in Launches : launches[l].pc \notin {"idle", "done"}
    /\ fs' \in { rm(fs, targetDir), rm(fs, modsDir) } \ {fs}
    /\ UNCHANGED <<updating, cachedForgeVersion, launchInProgress, activeLaunch, games, launches>>

\* ------------------------------------------------------ account handlers
\* what the account handlers leave alone
unrelated == <<env, remote, quota, store, updateInProgress, updateAbortController, fs, tmp, req,
               cachedForgeVersion, denied, query, checks, launchInProgress, activeLaunch, games, launches>>

\* app.whenReady: createStore, then attemptRestoreAccount up to its await
\* (main.js:243-245, 94-101)
CreateStore ==
    /\ auth.boot = "start"
    /\ LET created == createStore(account)
       IN  /\ account' = created
           /\ sessionAccount' = clearSessionAccount
           /\ auth' = [auth EXCEPT !.boot = IF Truthy(created.refreshToken)
                                            THEN "loginWithRefreshToken" ELSE "ready"]
    /\ UNCHANGED <<unrelated, nreq>>

\* attemptRestoreAccount: loginWithRefreshToken settles (main.js:101-108)
RestoreAccountDone ==
    /\ auth.boot = "loginWithRefreshToken"
    /\ \/ \E session \in Sessions :
             /\ sessionAccount' = setSession(session).session
             /\ account' = setSession(session).account
       \/ /\ sessionAccount' = clearSessionAccount
          /\ account' = BlankAccount
    /\ auth' = [auth EXCEPT !.boot = "ready", !.last = "restore"]
    /\ UNCHANGED <<unrelated, nreq>>

\* hellas:poll-device-login up to its await of pollDeviceCode (main.js:324-330)
PollDeviceLogin ==
    /\ auth.boot = "ready"
    /\ nreq < quota
    /\ nreq' = nreq + 1
    /\ auth' = [auth EXCEPT !.polls = @ + 1]
    /\ UNCHANGED <<unrelated, account, sessionAccount>>

\* hellas:poll-device-login: pollDeviceCode settles (main.js:330-336)
PollDeviceLoginDone ==
    /\ auth.polls > 0
    /\ \E status \in PollStatuses :
          IF status = "success"
          THEN \E session \in Sessions :
                  /\ sessionAccount' = setSession(session).session
                  /\ account' = setSession(session).account
                  /\ auth' = [auth EXCEPT !.polls = @ - 1, !.last = "login"]
          ELSE /\ auth' = [auth EXCEPT !.polls = @ - 1]
               /\ UNCHANGED <<sessionAccount, account>>
    /\ UNCHANGED <<unrelated, nreq>>

\* hellas:logout (main.js:406-411)
Logout ==
    /\ auth.boot = "ready"
    /\ nreq < quota
    /\ nreq' = nreq + 1
    /\ sessionAccount' = clearSessionAccount
    /\ account' = BlankAccount
    /\ auth' = [auth EXCEPT !.last = "logout"]
    /\ UNCHANGED unrelated

Next ==
    \/ \E r \in Requests : Retire(r)
    \/ PerformInstall
    \/ TriggerUpdate
    \/ FreshReinstall
    \/ CancelUpdate
    \/ \E r \in Requests : MkdirInstallDirDone(r)
    \/ \E r \in Requests : RmInstallDirDone(r)
    \/ \E r \in Requests : FetchDone(r)
    \/ \E r \in Requests : DescriptorJsonDone(r)
    \/ \E r \in Requests : FetchDescriptorDone(r)
    \/ \E r \in Requests : DownloadData(r)
    \/ \E r \in Requests : DownloadError(r)
    \/ \E r \in Requests : DownloadAborted(r)
    \/ \E r \in Requests : DownloadFinish(r)
    \/ \E r \in Requests : Prepare(r)
    \/ \E r \in Requests : Purge(r)
    \/ \E r \in Requests : Extract(r)
    \/ \E r \in Requests : Normalize(r)
    \/ \E r \in Requests : Unlink(r)
    \/ \E r \in Requests : GetInstallationStateDone(r)

Spec == Init /\ [][Next]_vars

SpecOne == InitOne /\ [][Next]_vars

SpecEnv == InitEnv /\ [][Next]_vars

SpecProgress == InitProgress /\ [][Next]_vars

\* the update handlers together with the state queries
NextStore ==
    \/ Next
    \/ GetInstallation
    \/ GetState
    \/ QueryCheckDone
    \/ QueryFeedDone
    \/ QueryRetire
    \/ UpdateKnownVersion

SpecStore == InitStore /\ [][NextStore]_vars

SpecKnown == InitKnown /\ [][NextStore]_vars

\* detection alone, over any of the install roots
NextDetect ==
    \/ CheckLaunchRequirements
    \/ GetInstallation
    \/ QueryCheckDone
    \/ QueryRetire

SpecDetect == InitDetect /\ [][NextDetect]_vars

\* the launch handlers over an installation
NextLaunch ==
    \/ \E l \in Launches : LaunchGame(l)
    \/ \E l \in Launches : LaunchInstallationDone(l)
    \/ \E l \in Launches : LaunchEnsureInstallDirDone(l)
    \/ \E l \in Launches : LaunchCheckDone(l)
    \/ \E l \in Launches : LaunchMinecraftDone(l)
    \/ \E l \in Launches : LaunchForgeDone(l)
    \/ \E l \in Launches : LaunchGameDirectoryDone(l)
    \/ \E l \in Launches : LaunchLog4jDone(l)
    \/ \E l \in Launches : LaunchJavaDone(l)
    \/ \E g \in Launches, code \in {0, 1} : GameClose(g, code)
    \/ CancelLaunch
    \/ InstallRootChanges

SpecLaunch == InitLaunch /\ [][NextLaunch]_vars

\* start-up and the account handlers
NextAccount ==
    \/ CreateStore
    \/ RestoreAccountDone
    \/ PollDeviceLogin
    \/ PollDeviceLoginDone
    \/ Logout

SpecAccount == InitAccount /\ [][NextAccount]_vars

TypeOK ==
    /\ updateInProgress \in BOOLEAN
    /\ updateAbortController \in 0..MaxRequests
    /\ nreq \in 0..MaxRequests
    /\ tmp \subseteq Requests
\* ================================================================== claims
\* positions of a task between its start in runUpdateTask and its settling
TaskPcs ==
    { "rmInstallDir", "fetchFeedManifest", "fetch", "descriptorJson", "fetchDescriptor",
      "downloading", "prepare", "purge", "extract", "normalize", "unlink" }

\* the requests whose task is in flight
InFlight == { r \in Requests : req[r].pc \in TaskPcs }

\* in this step the handler of request q calls runUpdateTask
Arrives(q) ==
    /\ req[q].pc \in {"idle", "mkdirInstallDir"}
    /\ req'[q].pc \notin {"idle", "mkdirInstallDir"}
    /\ req'[q].outcome # "unconfigured"

\* C1: at most one task started by runUpdateTask is in flight in any reachable state,
\* and a handler that calls runUpdateTask while one is in flight fails in that very
\* step with 'Another download is already in progress.'; it is never started or queued.
C1_SingleFlight ==
    /\ [](Cardinality(InFlight) <= 1)
    /\ [][\A q \in Requests :
             Arrives(q) /\ InFlight # {} =>
                /\ req'[q].pc = "settled"
                /\ req'[q].outcome = "busy"
                /\ req'[q].message = BusyError]_vars

\* a request has just been rejected while another one's task is in flight
C1_Witness ==
    \E a, q \in Requests :
        /\ req[a].pc \in TaskPcs
        /\ req[q].pc = "settled" /\ req[q].outcome = "busy" /\ req[q].message = BusyError

\* C2: the step that rejects request B while A is running leaves A untouched:
\* updateInProgress stays true, updateAbortController is still A's, A's signal, position
\* and locals are what they were, and installedVersion and lastKnownVersion are unchanged,
\* so A runs on from where it stood.
C2_RejectionLeavesRunningTaskAlone ==
    [][\A q \in Requests :
          Arrives(q) /\ req'[q].outcome = "busy" =>
             \E a \in InFlight :
                /\ a # q
                /\ updateInProgress /\ updateInProgress'
                /\ updateAbortController = a /\ updateAbortController' = a
                /\ req'[a] = req[a]
                /\ req'[a].pc \in TaskPcs
                /\ store' = store
                /\ fs' \in {fs, mkdir(fs, targetDir)}]_vars

\* B was rejected as busy and A has gone on to complete
C2_Witness ==
    /\ req[1].outcome = "completed" /\ req[1].pc = "done"
    /\ req[2].outcome = "busy" /\ req[2].pc = "done"

\* C3: whenever no task is in flight the token is free (updateInProgress false, no
\* abort controller), whatever the outcomes of the tasks before; so a request is
\* rejected as busy only while some task is in flight.
C3_TokenReleased ==
    /\ InFlight = {} => ~updateInProgress /\ updateAbortController = 0
    /\ \A q \in Requests :
          req[q].pc = "settled" /\ req[q].outcome = "busy" => InFlight # {}

\* the first operation was cancelled and the next request has been accepted
C3_Witness ==
    /\ req[1].pc = "done" /\ req[1].outcome = "cancelled"
    /\ req[2].pc \in TaskPcs /\ updateAbortController = 2

\* positions in which the task is resolving the source or downloading the archive
ResolvingOrDownloading ==
    { "fetchFeedManifest", "fetch", "descriptorJson", "fetchDescriptor", "downloading" }

\* C4: a task that was cancelled while resolving or downloading, or whose cancellation
\* was honoured at a checkpoint, has settled as cancelled: the handler returns
\* {cancelled: true}, the events sent hold 'cancelled' and neither 'error' nor
\* 'complete', its temporary file is gone and installedVersion is what it was when
\* the task started.
C4_CancelledNotFailed ==
    \A r \in Requests :
        /\ req[r].pc = "settled"
        /\ req[r].cancelAt \in ResolvingOrDownloading \/ req[r].pending = "cancelled"
        => /\ req[r].outcome = "cancelled"
           /\ "cancelled" \in EventStates(req[r].events)
           /\ "error" \notin EventStates(req[r].events)
           /\ "complete" \notin EventStates(req[r].events)
           /\ r \notin tmp
           /\ store.installedVersion = req[r].installed0

\* C5: once a call of downloadAndExtractUpdate that chose a temporary path has settled,
\* its temporary file does not exist; a temporary file exists only while the task that
\* made it is in flight.
C5_TempFileGone ==
    \A r \in Requests :
        /\ req[r].pc = "settled" /\ req[r].tempZipPath => r \notin tmp
        /\ r \in tmp => req[r].pc \in TaskPcs

\* every path of the root g is in f with what it held, and f holds no other file
SameFiles(f, g) ==
    /\ \A p \in DOMAIN g : p \in DOMAIN f /\ f[p] = g[p]
    /\ Files(f) = Files(g)

\* C6: when a SHA-256 is expected and the digest of the downloaded stream differs from
\* it, the task fails with the checksum error and no step of the extraction has run:
\* every file and directory the root held when downloadAndExtractUpdate began is still
\* there unchanged, nothing was unpacked, no 'extracting' event was sent, and
\* installedVersion is what it was when the task started.
C6_ChecksumMismatchStopsExtraction ==
    \A r \in Requests :
        /\ Truthy(req[r].resolved.sha256)
        /\ Truthy(req[r].digest)
        /\ toLowerCase(req[r].digest) # toLowerCase(req[r].resolved.sha256)
        => /\ req[r].pc \in {"unlink", "settled"}
           /\ req[r].pending = "error"
           /\ req[r].message = ChecksumError
           /\ req[r].pc = "settled" => req[r].outcome = "failed"
           /\ "error" \in EventStates(req[r].events)
           /\ "extracting" \notin EventStates(req[r].events)
           /\ req[r].archive = "none"
           /\ SameFiles(fs, req[r].fsBegin)
           /\ store.installedVersion = req[r].installed0

\* an update over a prior installation has failed on its checksum
C6_Witness ==
    \E r \in Requests :
        /\ req[r].pc = "settled" /\ req[r].outcome = "failed" /\ req[r].message = ChecksumError
        /\ req[r].digest = <<"cd">> /\ req[r].resolved.sha256 = <<"AB">>
        /\ req[r].kind = "update" /\ exists(fs, modsDir \o <<"oldmod.jar">>)

\* where an archive entry ends up once the legacy directories have been moved
CanonicalPath(name) ==
    IF IsPrefix(legacyModsDir, name)
    THEN modsDir \o SubSeq(name, Len(legacyModsDir) + 1, Len(name))
    ELSE IF IsPrefix(legacyResourcepacksDir, name)
    THEN resourcepacksDir \o SubSeq(name, Len(legacyResourcepacksDir) + 1, Len(name))
    ELSE name

\* the file entries of archive a
FileEntries(a) == { Archive(a)[i].entryName : i \in { j \in 1..Len(Archive(a)) : ~Archive(a)[j].isDirectory } }

\* the task of request r has extracted and normalised without error
Extracted(r) == req[r].pc \in {"unlink", "settled"} /\ req[r].pending = "ok"

\* C7: after a successful extraction every file under modpack/mods and
\* modpack/resourcepacks is one the archive holds, at that path or at its legacy
\* root-level path, and has the archive's content: nothing of the prior
\* installation is left there.
C7_ReplaceNotMerge ==
    \A r \in Requests :
        Extracted(r) =>
            \A p \in Files(fs) :
                IsPrefix(modsDir, p) \/ IsPrefix(resourcepacksDir, p) =>
                    \E name \in FileEntries(req[r].archive) :
                        /\ CanonicalPath(name) = p
                        /\ fs[p] = Content("archive", name)

\* an update whose archive has no oldmod.jar has succeeded over an installation that
\* had one under modpack/mods and one under the legacy mods directory
C7_Witness ==
    \E r \in Requests :
        /\ Extracted(r) /\ req[r].kind = "update" /\ req[r].archive = "canonical"
        /\ exists(req[r].fs0, modsDir \o <<"oldmod.jar">>)
        /\ exists(req[r].fs0, legacyModsDir \o <<"oldmod.jar">>)
        /\ ~exists(fs, modsDir \o <<"oldmod.jar">>)
        /\ exists(fs, modsDir \o <<"a.jar">>)

\* what stood at the root-level path of server file s before the normalisation: the
\* archive's entry, else the file the root held when downloadAndExtractUpdate began
FoundAtRoot(r, s) ==
    IF <<s>> \in FileEntries(req[r].archive) THEN {Content("archive", <<s>>)}
    ELSE IF exists(req[r].fsBegin, <<s>>) THEN {req[r].fsBegin[<<s>>]}
    ELSE {}

\* C8: after a successful extraction and normalisation every archive file entry under
\* a root-level mods/ or resourcepacks/ is at the same relative path under modpack/mods
\* or modpack/resourcepacks and not at the root, no legacy mods or resourcepacks
\* directory is left at the root, and servers.dat and servers.dat_old found at the root
\* are under modpack/ and not at the root.
C8_LegacyLayoutMigrated ==
    \A r \in Requests :
        Extracted(r) =>
            /\ \A name \in FileEntries(req[r].archive) :
                  CanonicalPath(name) # name =>
                     /\ exists(fs, CanonicalPath(name))
                     /\ fs[CanonicalPath(name)] = Content("archive", name)
                     /\ ~exists(fs, name)
            /\ ~exists(fs, legacyModsDir)
            /\ ~exists(fs, legacyResourcepacksDir)
            /\ \A i \in 1..Len(SERVER_FILES) :
                  /\ ~exists(fs, <<SERVER_FILES[i]>>)
                  /\ \A c \in FoundAtRoot(r, SERVER_FILES[i]) :
                        /\ exists(fs, modpackDir \o <<SERVER_FILES[i]>>)
                        /\ fs[modpackDir \o <<SERVER_FILES[i]>>] = c

\* an archive in the legacy layout has been extracted and normalised
C8_Witness ==
    \E r \in Requests :
        /\ Extracted(r) /\ req[r].archive = "legacy"
        /\ exists(fs, modsDir \o <<"foo.jar">>)
        /\ exists(fs, resourcepacksDir \o <<"r.zip">>)
        /\ exists(fs, modpackDir \o <<"servers.dat_old">>)

\* the part of the install root the claim C9 lets an install or update change
ClaimedRegion(r, p) ==
    \/ IsPrefix(modsDir, p) \/ IsPrefix(resourcepacksDir, p)
    \/ IsPrefix(legacyModsDir, p) \/ IsPrefix(legacyResourcepacksDir, p)
    \/ \E i \in 1..Len(SERVER_FILES) : p = <<SERVER_FILES[i]>>
    \/ \E i \in 1..Len(Archive(req[r].archive)) : p = Archive(req[r].archive)[i].entryName

\* the paths the normalisation relocates the server-list files to
RelocationTarget(p) == \E i \in 1..Len(SERVER_FILES) : p = modpackDir \o <<SERVER_FILES[i]>>

\* an install or update task of request r has settled, in whatever outcome
RanInstallOrUpdate(r) ==
    /\ req[r].kind \in {"install", "update"}
    /\ req[r].pc = "settled"
    /\ req[r].outcome \in {"completed", "failed", "cancelled"}

\* C9 as stated: every file the root held before an install or update, outside
\* modpack/mods, modpack/resourcepacks, the legacy mods and resourcepacks directories,
\* the root-level server-list files and the paths of archive entries, is still there
\* unchanged once the operation has settled.
C9_AsStated ==
    \A r \in Requests :
        RanInstallOrUpdate(r) =>
            \A p \in Files(req[r].fs0) :
                ~ClaimedRegion(r, p) => exists(fs, p) /\ fs[p] = req[r].fs0[p]

\* C9, amended: the same, with modpack/servers.dat and modpack/servers.dat_old, the
\* targets of the server-list relocation, also outside the protected part.
C9_FrameOutsideManagedPaths ==
    \A r \in Requests :
        RanInstallOrUpdate(r) =>
            \A p \in Files(req[r].fs0) :
                ~ClaimedRegion(r, p) /\ ~RelocationTarget(p) =>
                    exists(fs, p) /\ fs[p] = req[r].fs0[p]

\* an update has completed over an installation with files under versions/, forge/
\* and modpack/, and they are still there
C9_Witness ==
    \E r \in Requests :
        /\ RanInstallOrUpdate(r) /\ req[r].outcome = "completed"
        /\ exists(req[r].fs0, <<"versions", "1.16.5.json">>)
        /\ exists(fs, <<"versions", "1.16.5.json">>)
        /\ exists(fs, <<"forge", "installer.jar">>)
        /\ exists(fs, modpackDir \o <<"options.txt">>)

\* C10: a fresh-reinstall request made while the update source has no url fails with
\* 'Update source is not configured.' in the step that handles it: the install root is
\* what it was, the request holds no token and never held one, no progress event was
\* sent and no temporary file was chosen or made.
C10_ReinstallUnconfiguredFailsFirst ==
    \A r \in Requests :
        req[r].kind = "reinstall" /\ ~Truthy(resolveUpdateSource.url) =>
            /\ req[r].pc = "settled"
            /\ req[r].outcome = "unconfigured"
            /\ req[r].message = NotConfiguredError
            /\ fs = req[r].fs0
            /\ updateAbortController # r
            /\ updateInProgress => \E a \in InFlight : a # r
            /\ req[r].events = <<>>
            /\ ~req[r].tempZipPath
            /\ r \notin tmp

\* a fresh-reinstall has been refused over an existing installation
C10_Witness ==
    \E r \in Requests :
        /\ req[r].kind = "reinstall" /\ req[r].outcome = "unconfigured"
        /\ req[r].message = NotConfiguredError
        /\ fs = FsPrior

\* the fresh-reinstall of request r has removed the install root: its
\* downloadAndExtractUpdate began, which follows the rm (update.js:314-316)
RemovedRoot(r) == req[r].kind = "reinstall" /\ req[r].resolved.type # "none"

\* C11: a fresh-reinstall that has removed the install root does not settle before
\* the root has been recreated and the archive extracted into it.
C11_ReinstallNeverLeavesRootDeleted ==
    \A r \in Requests :
        req[r].pc = "settled" /\ RemovedRoot(r) =>
            /\ exists(fs, targetDir)
            /\ req[r].archive # "none"

\* C12: with PACK_FEED_URL set, a perform-install, trigger-update or fresh-reinstall
\* request treats the feed as a configured source: it is not refused as unconfigured,
\* and unless it is refused as busy its task runs and emits 'fetching-feed'.
C12_FeedSourceIsConfigured ==
    \A r \in Requests :
        req[r].pc = "settled" /\ resolveUpdateSource.type = "feed" =>
            /\ req[r].outcome # "unconfigured"
            /\ req[r].outcome # "busy" => "fetching-feed" \in EventStates(req[r].events)

\* the source the task of request r resolved, as downloadAndExtractUpdate holds it
\* before any descriptor is followed
ResolvedAtFetch(r) == req[r].pc = "fetch"

\* C13 as stated, "non-empty" read of the variables' values as they are: Feed when
\* PACK_FEED_URL is non-empty, else Direct with PACK_ZIP_URL when that is non-empty,
\* else Direct with the default URL; version and sha256 only on a Direct source.
C13_AsStated ==
    LET source == resolveUpdateSource
    IN  /\ source.type \in {"feed", "direct"}
        /\ source.type = "feed" <=> env.PACK_FEED_URL # Empty
        /\ source.type = "feed" => source.version = Null /\ source.sha256 = Null
        /\ source.type = "direct" =>
              /\ source.url = IF env.PACK_ZIP_URL # Empty THEN trim(env.PACK_ZIP_URL) ELSE DEFAULT_PACK_URL
              /\ source.version = Or(env.PACK_VERSION, Null)
              /\ source.sha256 = Or(env.PACK_EXPECTED_SHA256, Null)

\* C13: resolveUpdateSource yields exactly one source: Feed when PACK_FEED_URL is not
\* blank (whatever PACK_ZIP_URL is), else Direct with the trimmed PACK_ZIP_URL when that
\* is not blank, else Direct with the default URL; PACK_VERSION and PACK_EXPECTED_SHA256
\* are attached to a Direct source only, and a task that starts holds that source.
C13_SourcePrecedence ==
    LET source == resolveUpdateSource
        feed == trim(env.PACK_FEED_URL)
        zip == trim(env.PACK_ZIP_URL)
    IN  /\ source.type \in {"feed", "direct"}
        /\ source.type = "feed" <=> feed # Empty
        /\ source.type = "feed" =>
              source.feedUrl = feed /\ source.url = Null /\ source.version = Null /\ source.sha256 = Null
        /\ source.type = "direct" =>
              /\ source.url = IF zip # Empty THEN zip ELSE DEFAULT_PACK_URL
              /\ source.url # Empty
              /\ source.version = Or(env.PACK_VERSION, Null)
              /\ source.sha256 = Or(env.PACK_EXPECTED_SHA256, Null)
        /\ \A r \in Requests :
              ResolvedAtFetch(r) =>
                  /\ feed = Empty
                  /\ req[r].resolved = [type |-> "direct",
                                        url |-> IF zip # Empty THEN zip ELSE DEFAULT_PACK_URL,
                                        version |-> Or(env.PACK_VERSION, Null),
                                        sha256 |-> Or(env.PACK_EXPECTED_SHA256, Null)]

\* a task has started on PACK_ZIP_URL's archive, version and checksum attached, while
\* PACK_FEED_URL is blank
C13_Witness ==
    \E r \in Requests :
        /\ ResolvedAtFetch(r)
        /\ env.PACK_FEED_URL = <<" ">>
        /\ req[r].resolved.url = <<"cdn/pack", ".zip">>
        /\ req[r].resolved.version = <<"2.0.0">>
        /\ req[r].resolved.sha256 = <<"AB">>

\* the first answer to request r's task was a descriptor document naming a url and a version
AnsweredDescriptor(r) ==
    /\ Len(req[r].answers) >= 1
    /\ req[r].answers[1].ok /\ req[r].answers[1].body = "descriptor"

\* C14: when a Direct source's URL answers with a descriptor {modpack: {url, version}}
\* and the operation completes, two GETs were made, the source URL then the nested url,
\* the archive written and unpacked is the second answer's, and installedVersion is
\* the descriptor's version.
C14_DescriptorFollowed ==
    \A r \in Requests :
        req[r].pc = "settled" /\ req[r].outcome = "completed" /\ AnsweredDescriptor(r) =>
            /\ req[r].gets = <<resolveUpdateSource.url, descriptorPack("descriptor").url>>
            /\ Len(req[r].answers) = 2
            /\ req[r].response = req[r].answers[2]
            /\ req[r].response.body = "zip"
            /\ req[r].archive \in remote.archives
            /\ req[r].resolved.url = RealZipUrl
            /\ store.installedVersion = <<"3.1.0">>

\* an update completed through a descriptor that was served as application/octet-stream,
\* replacing the version that PACK_VERSION names
C14_Witness ==
    \E r \in Requests :
        /\ req[r].pc = "settled" /\ req[r].outcome = "completed" /\ AnsweredDescriptor(r)
        /\ req[r].answers[1].contentType = "application/octet-stream"
        /\ env.PACK_VERSION = <<"2.0.0">>
        /\ req[r].installed0 = <<"1.0.0">>
        /\ store.installedVersion = <<"3.1.0">>

\* in this step the handler of request r receives its task's result
Settles(r) == req[r].pc # "settled" /\ req'[r].pc = "settled"

\* in this step request r completes with an artifact that carries a version
CompletesWithVersion(r) ==
    /\ Settles(r)
    /\ req'[r].outcome = "completed"
    /\ Truthy(req'[r].resolved.version)

\* C15: installedVersion changes only in a step in which an install, update or
\* reinstall completes with an artifact that carries a version, and in such a step it
\* becomes that version; every other step (a failure, a cancellation, a busy rejection,
\* a completion without a version, a step of get-state or get-installation) leaves it.
C15_InstalledVersionFrame ==
    [][ /\ \A r \in Requests :
              CompletesWithVersion(r) => store'.installedVersion = req'[r].resolved.version
        /\ store'.installedVersion # store.installedVersion =>
              \E r \in Requests : CompletesWithVersion(r) /\ req'[r].kind \in Kinds ]_vars

\* an update has completed without a version, installedVersion still what it was, after
\* an earlier invocation had been served
C15_Witness ==
    \E r \in Requests :
        /\ req[r].pc = "settled" /\ req[r].outcome = "completed"
        /\ req[r].resolved.version = Null
        /\ store.installedVersion = <<"1.0.0">>
        /\ nreq = 2

\* C16 as stated: lastKnownVersion changes only in a step in which an install, update
\* or reinstall completes.
C16_AsStated ==
    [][ store'.lastKnownVersion # store.lastKnownVersion =>
           \E r \in Requests : Settles(r) /\ req'[r].outcome = "completed" ]_vars

\* in this step hellas:get-state goes from pc at to its return
GetStateReturns(at) ==
    query.kind = "get-state" /\ query.pc = at /\ query'.pc = "replied"

\* C16: lastKnownVersion changes only in a completion with a version (to that version),
\* in hellas:get-state (to the version a Direct source names, or to the version of the
\* feed manifest just fetched) or in hellas:update-known-version (to the version given);
\* the last two leave installedVersion alone.
C16_LastKnownVersionWriters ==
    [][ store'.lastKnownVersion # store.lastKnownVersion =>
           \/ \E r \in Requests :
                 CompletesWithVersion(r) /\ store'.lastKnownVersion = req'[r].resolved.version
           \/ /\ GetStateReturns("checkLaunchRequirements")
              /\ resolveUpdateSource.type = "direct"
              /\ store'.lastKnownVersion = env.PACK_VERSION
              /\ store'.installedVersion = store.installedVersion
           \/ /\ GetStateReturns("fetchFeedManifest")
              /\ resolveUpdateSource.type = "feed"
              /\ \E answer \in FeedAnswers : answer.ok /\ store'.lastKnownVersion = answer.version
              /\ store'.installedVersion = store.installedVersion
           \/ /\ query' = query /\ req' = req /\ nreq' = nreq + 1
              /\ store'.lastKnownVersion \in KnownVersions
              /\ store'.installedVersion = store.installedVersion ]_vars

\* hellas:get-state has recorded the version that PACK_VERSION names while the
\* installed version is an older one and no operation has run
C16_Witness ==
    /\ query.kind = "get-state" /\ query.pc = "replied"
    /\ nreq = 1
    /\ store.installedVersion = <<"1.0.0">>
    /\ store.lastKnownVersion = <<"2.0.0">>

\* the installation states that have just been returned: by a state query, or by the
\* handler of a completed operation
Returned ==
    (IF query.pc = "replied" THEN { query.installation } ELSE {})
    \cup { req[r].installation : r \in { q \in Requests : req[q].pc = "replied" } }

\* the modpack requirement as detection reports it on the root as it is: not satisfied
\* when checkLaunchRequirements throws for want of a Forge version
ModpackReported ==
    { cachedForgeVersion # Null /\ check.requirements.modpack :
        check \in checkLaunchRequirements(fs, denied, Null, LatestForge) }

\* C17: in every installation state returned, isInstalled (readyToLaunch) is true if
\* and only if the install directory exists, installedVersion is a non-empty string and
\* the modpack requirement reported by detection is satisfied; the state is computed
\* from the install root and the persisted scalars as they are at the query.
C17_ReadyToLaunch ==
    \A i \in Returned :
        /\ i.isInstalled <=>
              (i.installDirExists /\ i.installedVersion # Empty /\ i.requirements.modpack)
        /\ i.installDirExists = exists(fs, targetDir)
        /\ i.installedVersion = store.installedVersion
        /\ i.lastKnownVersion = store.lastKnownVersion
        /\ i.requirements.modpack \in ModpackReported

\* an installation whose mods directory holds files but no Minecraft version file has
\* been reported ready
C17_Witness ==
    /\ query.pc = "replied"
    /\ query.installation.isInstalled
    /\ ~query.installation.requirements.minecraft
    /\ query.installation.requirements.forge
    /\ exists(fs, <<"modpack", "mods", "jei.jar">>)

\* the versions of the files under the install root that match the jar pattern
ModpackJarVersions ==
    { matchModpackJar(p[Len(p)]) :
        p \in { q \in DOMAIN fs : Len(q) > 0 /\ fs[q] # Dir /\ matchModpackJar(q[Len(q)]) # Null } }

\* the calls of checkLaunchRequirements that returned
ReturnedChecks == { i \in 1..Len(checks) : ~checks[i].result.threw }

\* C18: when detection is given an expected version E and the only jar matching the
\* naming convention has another version V, the returned modpackVersion is V and the
\* modpack is not reported as present.
C18_MismatchNotReady ==
    \A i \in ReturnedChecks :
        \A V \in ModpackJarVersions :
            (/\ denied = {}
             /\ checks[i].expected # Null
             /\ ModpackJarVersions = {V}
             /\ V # checks[i].expected)
            => /\ checks[i].result.modpackVersion = V
               /\ ~checks[i].result.requirements.modpack

\* C19: checkLaunchRequirements never throws: whatever the install root and whatever
\* the outcome of its Forge lookup it returns the three requirement flags, and every
\* mods directory it could not read appears in modpackErrors with path, message and code.
C19_NeverThrows ==
    \A i \in 1..Len(checks) :
        LET result == checks[i].result
        IN  /\ ~result.threw
            /\ \A k \in 1..Len(result.searchedModDirectories) :
                  LET d == result.searchedModDirectories[k]
                  IN  readdirCode(fs, denied, d) # "ok"
                      => \E e \in 1..Len(result.modpackErrors) :
                            result.modpackErrors[e] = readdirError(d, readdirCode(fs, denied, d))

\* C20: two calls of checkLaunchRequirements with the same expected version on the same
\* install root return identical results.
C20_Idempotent ==
    \A i, j \in 1..Len(checks) :
        checks[i].expected = checks[j].expected => checks[i].result = checks[j].result

\* the place of an update-progress state in the order of the phases
PhaseRank(st) ==
    CASE st = "fetching-feed" -> 0
      [] st = "downloading" -> 1
      [] st = "extracting" -> 2
      [] st = "finalizing" -> 3
      [] st = "complete" -> 4
      [] OTHER -> 5

DownloadingEvents(evs) == SelectSeq(evs, LAMBDA ev : ev.state = "downloading")

\* C22: every 'downloading' event carries an integer progress in 0..99 and only
\* 'complete' carries 100, whatever the content-length and the chunks received, more
\* bytes than announced included; with an unknown content-length the 'data' events
\* emit no 'downloading' event.
C22_DownloadProgressCapped ==
    \A r \in Requests :
        LET evs == req[r].events
        IN  /\ \A i \in 1..Len(evs) :
                  /\ evs[i].state = "downloading" => evs[i].progress \in 0..99
                  /\ evs[i].progress = 100 <=> evs[i].state = "complete"
            /\ (req[r].pc = "downloading" /\ req[r].response.contentLength = 0)
               => DownloadingEvents(evs) = <<Event("downloading", 0)>>

\* more bytes than the content-length announced have been received and the progress
\* reported for them is 99
C22_Witness ==
    \E r \in Requests :
        /\ req[r].pc = "downloading"
        /\ req[r].chunks = ProgressChunks
        /\ req[r].downloaded > req[r].response.contentLength
        /\ req[r].response.contentLength = 7
        /\ req[r].events[Len(req[r].events)] = Event("downloading", 99)

\* chunks have been received under an unknown content-length
C22_WitnessUnknownLength ==
    \E r \in Requests :
        /\ req[r].pc = "downloading"
        /\ req[r].chunks > 1
        /\ req[r].response.contentLength = 0

\* downloadAndExtractUpdate has begun for request r and r has not been retired
Began(r) == req[r].resolved.type # "none"

\* the download of request r has finished and, when a checksum is expected, the
\* digest of what was received is that checksum
Verified(r) ==
    /\ Event("downloading", PROGRESS_PHASE_DOWNLOAD) \in { req[r].events[i] : i \in 1..Len(req[r].events) }
    /\ Truthy(req[r].resolved.sha256) =>
          /\ req[r].digest # Null
          /\ toLowerCase(req[r].digest) = toLowerCase(req[r].resolved.sha256)

\* where the phases of request r stand
PhasesInOrder(r) ==
    /\ req[r].pc \in {"prepare", "purge", "extract", "normalize"} => Verified(r)
    /\ (req[r].pc = "normalize" \/ "finalizing" \in EventStates(req[r].events))
       => /\ req[r].archive # "none"
          /\ "extracting" \in EventStates(req[r].events)
          /\ req[r].pc = "normalize"
             => \A name \in FileEntries(req[r].archive) : exists(fs, name)
    /\ store.installedVersion # req[r].installed0
       => /\ req[r].pc = "settled" /\ req[r].outcome = "completed"
          /\ "finalizing" \in EventStates(req[r].events)

\* C23: the phases of one operation run in the order resolve, download, verify,
\* extract, normalize, persist: no step of the task changes the install root, and the
\* task reaches neither the pre-extraction deletion nor the unpacking, before the
\* download has finished and its checksum is verified; normalization starts only after
\* the unpacking; installedVersion is written only after normalization has finished.
C23_PhasesSequential ==
    /\ [](\A r \in Requests : Began(r) => PhasesInOrder(r))
    /\ [][\A r \in Requests :
             (Began(r) /\ req'[r] # req[r] /\ fs' # fs) => Verified(r)]_vars

\* an archive whose checksum was expected and verified has been unpacked and is about
\* to be normalized
C23_Witness ==
    \E r \in Requests :
        /\ req[r].pc = "normalize"
        /\ Truthy(req[r].resolved.sha256)
        /\ fs # req[r].fsBegin

\* the files under modpack/mods and modpack/resourcepacks with their contents
ModsContent(f) ==
    { <<p, f[p]>> : p \in { q \in Files(f) : IsPrefix(modsDir, q) \/ IsPrefix(resourcepacksDir, q) } }

\* C24: an install or update that ends cancelled leaves modpack/mods and
\* modpack/resourcepacks with the content they had before the operation: a cancel
\* request is not honoured between the deletion of those directories and their
\* repopulation.
C24_CancelNeverTears ==
    \A r \in Requests :
        (/\ req[r].pc = "settled"
         /\ req[r].outcome = "cancelled"
         /\ req[r].kind # "reinstall")
        => ModsContent(fs) = ModsContent(req[r].fs0)

\* C28: a request rejected because another operation is in progress mutates nothing:
\* it sends no update-progress event, writes nothing to the install root and changes
\* no persisted value.
C28_BusyRejectionMutatesNothing ==
    [][\A r \in Requests :
          (req'[r].pc = "settled" /\ req'[r].outcome = "busy" /\ req[r].pc # "settled")
          => /\ req'[r].events = <<>>
             /\ fs' = req'[r].fs0
             /\ store' = store]_vars

\* ---------------------------------------------------------------- C27
\* C27: once the store is created, through session restore, device logins and logouts
\* in any order, the persisted 'account' record holds a username and a refresh token
\* and no access token; the access token is held by the in-memory session only, and a
\* logout leaves the session cleared and the persisted record blank.
C27_AccessTokenNeverPersisted ==
    auth.boot # "start" =>
        /\ account.accessToken = Empty
        /\ (auth.last = "logout" => sessionAccount = clearSessionAccount /\ account = BlankAccount)

\* reached: a device login has put an access token in the session and the persisted
\* record carries the refresh token of that login and no access token
C27_Witness ==
    /\ auth.last = "login"
    /\ Truthy(sessionAccount.accessToken)
    /\ Truthy(account.refreshToken)
    /\ account.accessToken = Empty

\* ---------------------------------------------------------------- C25
\* launch l has passed the handler's guard and has neither returned nor thrown
PastGuard(l) == launches[l].pc \notin {"idle", "getInstallationState", "done"}

\* C25: game launch is single-flight under any interleaving of launch-game and
\* cancel-launch: at most one launch-game invocation is between the guard and its
\* return, at most one game started by launcher.launch is running, and an invocation
\* that meets the guard while another is past it ends with 'A launch is already
\* running.' without having called launcher.launch.
C25_SingleFlight ==
    /\ Cardinality({ l \in Launches : PastGuard(l) }) <= 1
    /\ Cardinality(games) <= 1
    /\ \A l \in Launches :
          launches[l].outcome = "alreadyRunning" =>
             /\ launches[l].message.text = AlreadyRunningError
             /\ ~launches[l].launched

\* ---------------------------------------------------------------- C26
\* launchModpack of launch l has had the result of its checkLaunchRequirements
Checked(l) == launches[l].check # Threw("") /\ ~launches[l].check.threw

\* C26: a launch whose checkLaunchRequirements reports the modpack missing is blocked:
\* launchModpack throws and launcher.launch is not called, and the handler refuses the
\* launch as well when its own detection finds no modpack.  A launch that finds the
\* modpack but misses Minecraft or Forge is not blocked: the missing components are
\* listed in a status message and each is fetched before launcher.launch is called.
C26_OnlyModpackBlocks ==
    \A l \in Launches :
       /\ launches[l].launched => Checked(l) /\ launches[l].check.requirements.modpack
       /\ (launches[l].detected # Threw("") /\ ~launches[l].detected.threw
              /\ ~launches[l].detected.requirements.modpack)
            => launches[l].outcome = "notInstalled" /\ ~launches[l].launched
       /\ (Checked(l) /\ ~launches[l].check.requirements.modpack)
            => launches[l].pc = "done" /\ launches[l].outcome = "blocked" /\ ~launches[l].launched
       /\ (Checked(l) /\ launches[l].check.requirements.modpack)
            => /\ launches[l].outcome # "blocked"
               /\ launches[l].reported = missing(launches[l].check.requirements)
               /\ launches[l].launched =>
                     \A i \in 1..Len(launches[l].reported) : launches[l].reported[i] \in launches[l].fetched

\* reached: one launch has been blocked by launchModpack for the missing modpack, and
\* another has called launcher.launch after reporting and fetching a missing component
C26_Witness ==
    \E l, k \in Launches :
       /\ launches[l].outcome = "blocked" /\ ~launches[l].launched
       /\ launches[k].launched /\ launches[k].reported # <<>>
       /\ \A i \in 1..Len(launches[k].reported) : launches[k].reported[i] \in launches[k].fetched

\* ---------------------------------------------------------------- C29
\* launch l was refused because a detection made for it found no modpack
BlockedForModpack(l) ==
    /\ launches[l].pc = "done"
    /\ launches[l].outcome \in {"notInstalled", "blocked"}
    /\ LET seen == IF launches[l].outcome = "blocked" THEN launches[l].check ELSE launches[l].detected
       IN  ~seen.threw /\ ~seen.requirements.modpack

\* C29: whenever a launch request is refused because the modpack is missing, the error
\* it ends with names every mod directory the detection scanned and every filesystem
\* error it captured.
C29_BlockedMessageComplete ==
    \A l \in Launches :
       BlockedForModpack(l) =>
          LET seen == IF launches[l].outcome = "blocked" THEN launches[l].check ELSE launches[l].detected
          IN  /\ launches[l].message.searched = seen.searchedModDirectories
              /\ launches[l].message.details = seen.modpackErrors

\* the part of it that launchModpack's own refusal meets
C29_LaunchModpackMessageComplete ==
    \A l \in Launches :
       (BlockedForModpack(l) /\ launches[l].outcome = "blocked") =>
          /\ launches[l].message.searched = launches[l].check.searchedModDirectories
          /\ launches[l].message.details = launches[l].check.modpackErrors

\* ---------------------------------------------------------------- C30
\* p is under the install root and nothing on the way to it denies access
Reachable(p) == p \in DOMAIN fs /\ \A q \in denied : ~IsPrefix(q, p)

\* what lies directly in directory d
Children(d) == { p \in DOMAIN fs : Len(p) = Len(d) + 1 /\ SubSeq(p, 1, Len(d)) = d }

\* d is a readable directory that holds something
NonEmptyDirectory(d) == Reachable(d) /\ fs[d] = Dir /\ Children(d) # {}

\* d is a readable directory that holds a file named hellasforms-<version>.jar
HoldsModpackJar(d) ==
    /\ Reachable(d) /\ fs[d] = Dir
    /\ \E p \in Children(d) : fs[p] # Dir /\ matchModpackJar(p[Len(p)]) # Null

\* C30: in every result checkLaunchRequirements returns, requirements.modpack is true
\* exactly when some scanned mods directory holds a file named hellasforms-<version>.jar
\* or some scanned mods directory is not empty; requirements.minecraft is true exactly
\* when versions/1.16.5/1.16.5.json is accessible; requirements.forge is true exactly
\* when the metadata file of the Forge version or, failing that, its installer is
\* accessible.
C30_RequirementsExact ==
    \A i \in ReturnedChecks :
       LET result == checks[i].result
           dirs == { result.searchedModDirectories[k] : k \in 1..Len(result.searchedModDirectories) }
       IN  /\ result.requirements.modpack
                <=> \E d \in dirs : HoldsModpackJar(d) \/ NonEmptyDirectory(d)
           /\ result.requirements.minecraft <=> Reachable(<<"versions", "1.16.5", "1.16.5.json">>)
           /\ result.forgeVersion = LatestForge
           /\ result.requirements.forge <=> (Reachable(ForgeJson) \/ Reachable(ForgeInstaller))

\* reached: a result reports all three present on a root whose Forge metadata file is
\* absent and whose installer is there
C30_Witness ==
    \E i \in ReturnedChecks :
       /\ checks[i].result.requirements = [minecraft |-> TRUE, forge |-> TRUE, modpack |-> TRUE]
       /\ ~Reachable(ForgeJson)
       /\ Reachable(ForgeInstaller)

\* ---------------------------------------------------------------- C31
\* the versions of the files named hellasforms-<version>.jar that a scan of d meets
MatchesIn(d) ==
    IF Reachable(d) /\ fs[d] = Dir
    THEN { matchModpackJar(p[Len(p)]) :
             p \in { q \in Children(d) : fs[q] # Dir /\ matchModpackJar(q[Len(q)]) # Null } }
    ELSE {}

\* C31: when several files across the scanned mods directories match the pattern
\* hellasforms-<version>.jar and none of them is the expected jar, or no version is
\* expected, the modpackVersion reported is the version of the first match in scan
\* order: a match of the first scanned directory that holds one.
C31_FirstMatchReported ==
    \A i \in ReturnedChecks :
       LET dirs == checks[i].result.searchedModDirectories
           holding == { k \in 1..Len(dirs) : MatchesIn(dirs[k]) # {} }
           found == UNION { MatchesIn(dirs[k]) : k \in holding }
       IN  (/\ Cardinality(found) > 1
            /\ checks[i].expected = Null \/ checks[i].expected \notin found)
           => \E k \in holding :
                 /\ \A j \in holding : k <= j
                 /\ checks[i].result.modpackVersion \in MatchesIn(dirs[k])

\* ---------------------------------------------------------------- C32
\* a GET of request r, the first or the one re-issued for a descriptor, was answered
\* with a status outside 2xx
AnsweredNotOk(r) == \E i \in 1..Len(req[r].answers) : ~req[r].answers[i].ok

\* C32: when a GET for the artifact is answered with a status outside 2xx, the first
\* GET or the one re-issued against a descriptor's url, whatever the content-type of
\* the first response, the operation fails with an error: no body is written as the
\* archive, and the task reaches neither the deletion nor the unpacking.
C32_HttpFailureFails ==
    \A r \in Requests :
        AnsweredNotOk(r) =>
            /\ req[r].fileStream = "none"
            /\ req[r].pc \notin {"downloading", "prepare", "purge", "extract", "normalize"}
            /\ req[r].archive = "none"
            /\ req[r].pending \in {"error", "cancelled"}
            /\ req[r].outcome # "completed"

\* the same for the first GET alone
C32_FirstGetFailureFails ==
    \A r \in Requests :
        (Len(req[r].answers) > 0 /\ ~req[r].answers[1].ok) =>
            /\ req[r].fileStream = "none"
            /\ req[r].archive = "none"
            /\ req[r].pending \in {"error", "cancelled"}
            /\ req[r].outcome # "completed"

\* ---------------------------------------------------------------- C33
\* the first response of request r was read as a descriptor and gave no url: the body
\* did not parse, or the document has none
ProbeGaveNoUrl(r) ==
    /\ Len(req[r].answers) > 0
    /\ req[r].answers[1].ok
    /\ shouldAttemptDescriptor(req[r].resolved, req[r].answers[1])
    /\ req[r].pc \notin {"fetch", "descriptorJson"}
    /\ \/ ~parsesAsJson(req[r].answers[1].body)
       \/ ~Truthy(descriptorPack(req[r].answers[1].body).url)

\* C33: when the first response is probed as a descriptor and the parsing fails, or the
\* parsed document has no url: with a JSON content-type the operation fails and nothing
\* is downloaded; with any other content-type the operation goes on with the original
\* response body as the artifact, without another GET, unless it was cancelled meanwhile.
C33_ProbeFallback ==
    \A r \in Requests :
        ProbeGaveNoUrl(r) =>
            /\ Len(req[r].gets) = 1
            /\ req[r].response = req[r].answers[1]
            /\ IF includesJson(req[r].answers[1].contentType)
               THEN /\ req[r].fileStream = "none"
                    /\ req[r].pending \in {"error", "cancelled"}
                    /\ req[r].outcome # "completed"
               ELSE req[r].fileStream = "none" => req[r].pending = "cancelled"

\* reached: a body that is no JSON, sent with another content-type, has been downloaded
\* as the artifact and unpacked
C33_Witness ==
    \E r \in Requests :
        /\ ProbeGaveNoUrl(r)
        /\ ~includesJson(req[r].answers[1].contentType)
        /\ req[r].archive \notin {"none", "invalid"}
        /\ req[r].pc = "normalize"

\* ---------------------------------------------------------------- C34
\* the positions of the terminal events among evs
TerminalEvents(evs) == { i \in 1..Len(evs) : evs[i].state \in {"complete", "error", "cancelled"} }

\* request r ran its task and its handler has returned or thrown
RanTask(r) == req[r].pc = "settled" /\ req[r].outcome \in {"completed", "failed", "cancelled"}

\* C34: every operation that enters Running emits exactly one terminal update-progress
\* event, 'complete', 'error' or 'cancelled', and that event is the last one it emits.
C34_OneTerminalEvent ==
    \A r \in Requests :
        RanTask(r) => TerminalEvents(req[r].events) = { Len(req[r].events) }

\* the same for the operations that complete
C34_CompletedOneTerminalEvent ==
    \A r \in Requests :
        (RanTask(r) /\ req[r].outcome = "completed")
        => TerminalEvents(req[r].events) = { Len(req[r].events) }

\* ---------------------------------------------------------------- C35
\* C35: the normalization after the unpacking discards nothing the archive placed in
\* the canonical location: after a successful extraction every file entry of the
\* archive under modpack/mods or modpack/resourcepacks is still there, next to the
\* entries moved in from the root-level mods and resourcepacks.
C35_NormalizationKeepsCanonical ==
    \A r \in Requests :
        Extracted(r) =>
            \A name \in FileEntries(req[r].archive) :
                (IsPrefix(modsDir, name) \/ IsPrefix(resourcepacksDir, name)
                 \/ IsPrefix(legacyModsDir, name) \/ IsPrefix(legacyResourcepacksDir, name))
                => exists(fs, CanonicalPath(name))

\* the same for the entries moved in from the root-level directories
C35_LegacyEntriesMoved ==
    \A r \in Requests :
        Extracted(r) =>
            \A name \in FileEntries(req[r].archive) :
                (IsPrefix(legacyModsDir, name) \/ IsPrefix(legacyResourcepacksDir, name))
                => exists(fs, CanonicalPath(name))

\* ---------------------------------------------------------------- C36
\* the install or update of request r ended failed and wrote no archive entry into the
\* install root
FailedBeforeWriting(r) ==
    /\ req[r].pc = "settled"
    /\ req[r].outcome = "failed"
    /\ req[r].kind # "reinstall"
    /\ req[r].archive = "none"

\* C36: when an install or update ends failed before any archive entry has been
\* written into the install root, for example because the downloaded file cannot be
\* opened as an archive, what modpack/mods and modpack/resourcepacks held before the
\* operation is still present.
C36_FailureKeepsMods ==
    \A r \in Requests :
        FailedBeforeWriting(r) => ModsContent(req[r].fs0) \subseteq ModsContent(fs)

\* the same for the failures that come before the download has finished
C36_DownloadFailureKeepsMods ==
    \A r \in Requests :
        (FailedBeforeWriting(r) /\ ~Verified(r)) => ModsContent(req[r].fs0) \subseteq ModsContent(fs)

\* ---------------------------------------------------------------- C37
\* this step releases the token that the task of request r held
ReleasesToken(r) == r \in InFlight /\ updateInProgress /\ ~updateInProgress'

\* C37: no other operation comes between the release of the token by an operation's
\* task and that operation's persisted writes and 'complete' event: while a task is in
\* flight the token is held, and the step that releases it is the step in which the
\* operation sends its last event and, when it completes, writes the version and sends
\* 'complete', with no event and no write of any other operation.
C37_SettlesInOneStep ==
    /\ [](\A r \in InFlight : updateInProgress)
    /\ [][\A r \in Requests :
             ReleasesToken(r) =>
                /\ req'[r].pc = "settled"
                /\ \A q \in Requests \ {r} : req'[q] = req[q]
                /\ IF req'[r].outcome = "completed"
                   THEN /\ req'[r].events[Len(req'[r].events)] = Event("complete", 100)
                        /\ store' = persistVersion(Or(req[r].resolved.version, Null))
                   ELSE store' = store]_vars

\* reached: an operation has completed, its version is persisted and 'complete' is its
\* last event, after another request was refused as busy
C37_Witness ==
    \E r, q \in Requests :
        /\ req[r].pc = "settled" /\ req[r].outcome = "completed"
        /\ req[r].events[Len(req[r].events)] = Event("complete", 100)
        /\ Truthy(req[r].resolved.version)
        /\ store.installedVersion = req[r].resolved.version
        /\ req[q].outcome = "busy"

\* ---------------------------------------------------------------- C38
\* C38: cancel-update issued while no operation is running returns false and aborts
\* nothing, and it cannot cancel an operation that starts later: every operation starts
\* with a signal that is not aborted.  Issued while an operation is running it returns
\* true and aborts the signal of that operation only.
C38_CancelScopedToRunning ==
    /\ [](LET call == cancelActiveUpdate(updateAbortController)
          IN  /\ call.returned <=> InFlight # {}
              /\ call.aborts = InFlight)
    /\ [][\A r \in Requests :
             /\ (r \notin InFlight /\ r \in InFlight') => ~req'[r].aborted
             /\ (~req[r].aborted /\ req'[r].aborted)
                => /\ InFlight = {r}
                   /\ \A q \in Requests \ {r} : req'[q] = req[q]
                   /\ UNCHANGED <<store, fs, updateInProgress, updateAbortController>>]_vars

\* reached: an operation that started after another one was cancelled runs with a
\* signal that is not aborted
C38_Witness ==
    \E r, q \in Requests :
        /\ req[q].outcome = "cancelled"
        /\ r \in InFlight
        /\ ~req[r].aborted
        /\ cancelActiveUpdate(updateAbortController).aborts = {r}

\* ------------------------------------------------------------------- C39
\* the call a running task awaits returns or fails: one of the steps of request r's task
TaskStep(r) ==
    \/ RmInstallDirDone(r)
    \/ FetchDone(r)
    \/ DescriptorJsonDone(r)
    \/ FetchDescriptorDone(r)
    \/ DownloadData(r)
    \/ DownloadError(r)
    \/ DownloadAborted(r)
    \/ DownloadFinish(r)
    \/ Prepare(r)
    \/ Purge(r)
    \/ Extract(r)
    \/ Normalize(r)
    \/ Unlink(r)

\* request r's task awaits a call and no settled handler is still running: the
\* condition under which TaskStep(r) can be taken
Awaiting(r) == r \in InFlight /\ ~Settling

\* one request fewer, against a host that answers in any way and serves an archive with
\* entries in both layouts
InitLive ==
    InitWith(MaxRequests - 1, { World(FirstResponses, {"mixed"}) }, Scenarios)

\* every call a task awaits eventually returns or fails, and the synchronous code that
\* follows a settling runs to its end.  The first conjunct of the fairness condition is
\* WF_vars(TaskStep(r)) with Awaiting(r) written for ENABLED <<TaskStep(r)>>_vars.
SpecLive ==
    /\ InitLive
    /\ [][Next]_vars
    /\ \A r \in Requests :
          /\ ([]<>~Awaiting(r)) \/ ([]<><<TaskStep(r)>>_vars)
          /\ WF_vars(Retire(r))

\* the task of request r has settled: its handler has sent 'complete', 'error' or
\* 'cancelled' as its last event and the token is released
SettledAndReleased(r) ==
    /\ req[r].pc = "settled"
    /\ req[r].outcome \in {"completed", "failed", "cancelled"}
    /\ req[r].events[Len(req[r].events)].state \in {"complete", "error", "cancelled"}
    /\ ~updateInProgress
    /\ updateAbortController = 0

\* C39: provided every call it awaits returns or fails, every task that is in flight,
\* cancelled or not, eventually settles: its handler sends 'complete', 'error' or
\* 'cancelled' and the active-operation token is released.
C39_EventuallySettles ==
    \A r \in Requests : (r \in InFlight) ~> SettledAndReleased(r)

\* a task that was cancelled while in flight has settled as cancelled
C39_Witness ==
    \E r \in Requests :
       /\ SettledAndReleased(r)
       /\ req[r].aborted
       /\ req[r].cancelAt \in TaskPcs
       /\ req[r].outcome = "cancelled"

\* ------------------------------------------------------------------- C40
\* one request fewer, against a host that serves an archive whose entry names are
\* absolute or hold '..' segments
InitExtract ==
    InitWith(MaxRequests - 1, { World(PlainResponses, {a}) : a \in {"escaping", "rooted"} }, Scenarios)

SpecExtract == InitExtract /\ [][Next]_vars

\* the directories that hold the install root
AboveRoot(p) == \A i \in 1..Len(p) : p[i] = ".."

\* the directory entries of the archives served whose joined path leaves the install root
ClimbingDirectories ==
    { e \in UNION { { Archive(a)[i] : i \in 1..Len(Archive(a)) } : a \in remote.archives } :
        e.isDirectory /\ ~InsideRoot(entryPath(e.entryName)) }

\* C40: whatever the names of the archive's entries, '..' segments and absolute names
\* included, every directory and file that exists after the extraction step lies within
\* the install root.
C40_ExtractionInsideRoot ==
    \A p \in DOMAIN fs : InsideRoot(p) \/ AboveRoot(p)

\* C40, for archives none of whose directory entries is joined to a path outside the
\* install root
C40_InsideRootWithoutClimbingDirectory ==
    ClimbingDirectories = {} => C40_ExtractionInsideRoot
=============================================================================
